---- MODULE Spec2Model ----
(***************************************************************************)
(* Model of the block-file allocator of go-mmstruct (package mmf):        *)
(* the free list threaded through header blocks (src/mmf/blockfile.go),   *)
(* over a memory mapped file (src/mmf/mappedfile.go).                     *)
(*                                                                         *)
(* The file is an array of blocks of bf.blocksize bytes.  A block is      *)
(* modelled by the five uint32 fields of bfHeader that start it, followed *)
(* by the uint32 slots that freeList() addresses behind the header.       *)
(***************************************************************************)
EXTENDS Integers, Sequences, FiniteSets, TLC

\* ------------------------------------------------------------------ bounds
\* the file is never grown beyond MaxBlocks blocks (block 0 included)
MaxBlocks == 5

\* block sizes a file is created with: capacities 0, 1, 2 and 3
BlockSizes == {20, 24, 28, 32}

\* --------------------------------------------------------------- constants
\* 0xB10CF11E and 0x1EF10CB1, most significant byte first
BlockFileMagic == <<177, 12, 241, 30>>
reversedBlockFileMagic == <<30, 241, 12, 177>>
NoMagic == <<0, 0, 0, 0>>
bfHeaderEntries == 5
bfHeaderSize == bfHeaderEntries * 4

\* Values are Go uint32 and int.  Every index and size of the model is
\* below 2^31, where uint32(x) and int(x) are the identity; the two places
\* where uint32 arithmetic can wrap are computed as the code computes them.

\* (a - b) / 4 in uint32 arithmetic: a - b wraps to 2^32 - (b - a) when a < b
SubDiv4(a, b) ==
  IF a >= b THEN (a - b) \div 4
  ELSE 1073741824 - ((b - a + 3) \div 4)

\* uint32(bfHeaderSize) + free_len*4 > blocksize in uint32 arithmetic:
\* free_len*4 wraps at 2^32 and so does the sum
ListEndsBehind(free_len, blocksize) ==
  LET q == free_len % 1073741824
  IN  IF q >= 1073741824 - 5 THEN 4 * (q - (1073741824 - 5)) > blocksize
      ELSE IF q > 536870906 THEN TRUE
      ELSE 20 + 4 * q > blocksize

Max(S) == CHOOSE x \in S : \A y \in S : y <= x

\* slots behind the header of the largest block
MaxEntries == (Max(BlockSizes) - bfHeaderSize) \div 4
EntryIdx == 0 .. (MaxEntries - 1)
BlockIdx == 0 .. (MaxBlocks - 1)

\* a block as the OS provides it after truncate: zero filled
ZeroBlock ==
  [magic |-> NoMagic, blocksize |-> 0, next |-> 0, free_len |-> 0, free_head |-> 0,
   entries |-> [k \in EntryIdx |-> 0]]

VARIABLES
  blocks,     \* the bytes of the file, block by block
  size,       \* the size of the file in bytes
  mf,         \* MappedFile: data # nil, file # nil
  bf,         \* BlockFile: mapper # nil, blocksize
  allocated,  \* history: the indices the clients hold
  freeOrder,  \* history: freed and not reallocated indices, oldest first
  freshAllocs,\* history: AllocateBlock calls since creation, frozen by the first FreeBlock
  everFreed,  \* history: FreeBlock was called
  everOver,   \* history: more than capacity-of-root blocks were free at some time
  peer,       \* history: blocksize of the BlockFile returned by CreateBlockFileWithSize
  last,       \* history: the last call, its argument and its results
  off,        \* MappedFile: the position of the next Read or Write
  closer,     \* the mapper of the BlockFile implements io.Closer
  calls,      \* history: the calls made so far of the mapper's Close
              \* (MappedFile.Close) and, by it, of syscall.Munmap and of
              \* os.File.Close
  out,        \* history: the list passed to and the slice returned by the
              \* last batch call or read, and what the last MapBlock did
  bytes,      \* the bytes of the file of a MappedFile that is used as a region
  leaked,     \* history: the indices a stopped call left neither held by a
              \* client nor in the free list
  misfreed,   \* history: the indices FreeBlock was called with while no client
              \* held them
  procs       \* the AllocateBlock calls of two callers that are under way:
              \* where each call stands and its local variables; history:
              \* calls were interleaved, indices returned while held

fileVars == <<blocks, size, mf, bf>>
histVars == <<allocated, freeOrder, freshAllocs, everFreed, everOver, peer, last>>
envVars == <<off, closer, calls, out, bytes, leaked, misfreed, procs>>
vars == <<blocks, size, mf, bf, allocated, freeOrder, freshAllocs, everFreed, everOver, peer, last,
          off, closer, calls, out, bytes, leaked, misfreed, procs>>

\* ------------------------------------------------------------------ header

\* Validate without the test for the magic number of the other byte order
ValidateOneMagic(hdr) ==
  IF hdr.magic # BlockFileMagic THEN "magic"
  ELSE IF hdr.free_head < 0 \/ hdr.free_head > hdr.free_len THEN "freelist"
  ELSE IF ListEndsBehind(hdr.free_len, hdr.blocksize) THEN "small"
  ELSE "nil"

\* bfHeader.Validate
Validate(hdr) ==
  IF hdr.magic = reversedBlockFileMagic THEN "foreign"
  ELSE IF hdr.magic # BlockFileMagic THEN "magic"
  ELSE IF hdr.free_head < 0 \/ hdr.free_head > hdr.free_len THEN "freelist"
  ELSE IF ListEndsBehind(hdr.free_len, hdr.blocksize) THEN "small"
  ELSE "nil"

\* Initialize that leaves the blocksize field as it is
InitializeNoBlocksize(hdr, blocksize) ==
  [hdr EXCEPT !.magic = BlockFileMagic,
              !.next = 0,
              !.free_len = SubDiv4(blocksize, bfHeaderSize),
              !.free_head = 0]

\* bfHeader.Initialize
Initialize(hdr, blocksize) ==
  [hdr EXCEPT !.magic = BlockFileMagic,
              !.blocksize = blocksize,
              !.next = 0,
              !.free_len = SubDiv4(blocksize, bfHeaderSize),
              !.free_head = 0]

\* the slot freeList()[cur] of a header
slot(hdr, cur) == IF cur \in EntryIdx THEN hdr.entries[cur] ELSE 0

\* freeListPush without the check of the capacity
freeListPushUnchecked(hdr, entry) ==
  LET cur == hdr.free_head
  IN  [hdr |-> [hdr EXCEPT !.free_head = cur + 1,
                           !.entries = [k \in EntryIdx |-> IF k = cur THEN entry ELSE @[k]]],
       err |-> "nil"]

\* freeListPush that ends the chain at the header it pushes onto
freeListPushCut(hdr, entry) ==
  LET cur == hdr.free_head
  IN  IF cur >= hdr.free_len
      THEN [hdr |-> hdr, err |-> "EOF"]
      ELSE [hdr |-> [hdr EXCEPT !.free_head = cur + 1,
                                !.next = 0,
                                !.entries = [k \in EntryIdx |-> IF k = cur THEN entry ELSE @[k]]],
            err |-> "nil"]

\* bfHeader.freeListPush
freeListPush(hdr, entry) ==
  LET cur == hdr.free_head
  IN  IF cur >= hdr.free_len
      THEN [hdr |-> hdr, err |-> "EOF"]
      ELSE [hdr |-> [hdr EXCEPT !.free_head = cur + 1,
                                !.entries = [k \in EntryIdx |-> IF k = cur THEN entry ELSE @[k]]],
            err |-> "nil"]

\* freeListPop that takes the oldest entry
freeListPopFirst(hdr) ==
  LET cur == hdr.free_head
  IN  IF cur <= 0
      THEN [hdr |-> hdr, entry |-> -1, err |-> "EOF"]
      ELSE [hdr |-> [hdr EXCEPT !.free_head = cur - 1,
                                !.entries = [k \in EntryIdx |-> slot(hdr, k + 1)]],
            entry |-> slot(hdr, 0), err |-> "nil"]

\* freeListPop that leaves free_head as it is
freeListPopKeep(hdr) ==
  LET cur == hdr.free_head
  IN  IF cur <= 0
      THEN [hdr |-> hdr, entry |-> -1, err |-> "EOF"]
      ELSE [hdr |-> hdr, entry |-> slot(hdr, cur - 1), err |-> "nil"]

\* bfHeader.freeListPop
freeListPop(hdr) ==
  LET cur == hdr.free_head
  IN  IF cur <= 0
      THEN [hdr |-> hdr, entry |-> -1, err |-> "EOF"]
      ELSE [hdr |-> [hdr EXCEPT !.free_head = cur - 1],
            entry |-> slot(hdr, cur - 1), err |-> "nil"]

\* bfHeaderFromSlice: the slice must hold a header
bfHeaderFromSlice(length) == IF length < bfHeaderSize THEN "short" ELSE "nil"

\* ------------------------------------------------------------------ mapper

\* a file system with room for every file of the model
NoQuota == 1000000

\* the MappedFile CreateMappedFile and OpenMappedFile return: mapped, the
\* file open
OpenedFile == [data |-> TRUE, file |-> TRUE, quota |-> NoQuota]

\* the MappedFile after a successful Close
ClosedFile == [data |-> FALSE, file |-> FALSE, quota |-> NoQuota]

\* no call of a Close or of Munmap was made
NoCalls == [mapperClose |-> 0, munmap |-> 0, fileClose |-> 0]

\* no batch call and no MapBlock was made
NoOut == [list |-> << >>, got |-> << >>, invoked |-> FALSE, offs |-> 0, length |-> 0]

\* the goroutines that call AllocateBlock without serialising their calls
Callers == {1, 2}

\* a caller between two calls
IdleCall ==
  [pc |-> "idle", hdrIdx |-> 0, nextHdrIdx |-> 0, cur |-> 0, block |-> 0, newBlockIndex |-> 0,
   stale |-> FALSE]

\* no call is under way
NoProcs == [call |-> [p \in Callers |-> IdleCall], mixed |-> FALSE, dup |-> {}]

\* MappedFile.Size
Size(m, sz) == IF m.data THEN sz ELSE 0

\* Mapper.Map: scoped access to [off, off+length), fails if the range
\* exceeds the current size
Map(msize, offs, length) ==
  IF offs < 0 \/ length < 0 \/ offs + length > msize THEN "range" ELSE "nil"

\* ------------------------------------------------------- header block access

\* BlockFile.mapHeaderBlock up to the call of the handler: the error, if any
mapHeaderBlock(f, msize, bs, block) ==
  IF Map(msize, block * bs, bs) # "nil" THEN Map(msize, block * bs, bs)
  ELSE IF bfHeaderFromSlice(bs) # "nil" THEN bfHeaderFromSlice(bs)
  ELSE IF block \notin DOMAIN f THEN "range"
  ELSE Validate(f[block])

\* BlockFile.initHeaderBlock with a nil handler
initHeaderBlock(f, msize, bs, block) ==
  IF Map(msize, block * bs, bs) # "nil" THEN [blocks |-> f, err |-> Map(msize, block * bs, bs)]
  ELSE IF bfHeaderFromSlice(bs) # "nil" THEN [blocks |-> f, err |-> bfHeaderFromSlice(bs)]
  ELSE IF block \notin DOMAIN f THEN [blocks |-> f, err |-> "range"]
  ELSE [blocks |-> [f EXCEPT ![block] = Initialize(f[block], bs)], err |-> "nil"]

Result(f, sz, ret, err) == [blocks |-> f, size |-> sz, ret |-> ret, err |-> err]


\* MappedFile.Truncate: unmap, truncate the file, map again; size is the size
\* of the file afterwards.  m.quota is the size up to which the file system
\* lets the file grow: os.File.Truncate fails beyond it.  Mmap refuses a
\* length of 0 (EINVAL), after the file was truncated
Truncate(m, sz, n) ==
  IF ~m.data \/ ~m.file THEN [size |-> sz, err |-> "closed"]
  ELSE IF n < 0 THEN [size |-> sz, err |-> "negative"]
  ELSE IF n > m.quota THEN [size |-> sz, err |-> "os"]
  ELSE IF n = 0 THEN [size |-> 0, err |-> "mmap"]
  ELSE [size |-> n, err |-> "nil"]

\* --------------------------------------------------------------- allocation

\* newBlockIndex rounding down to the last block of the file
newBlockIndexLast(msize, bs) == (msize - 1) \div bs

\* AllocateBlock, "allocate new block": the index of the block behind the end
newBlockIndex(msize, bs) == (msize + bs - 1) \div bs

\* newSize that adds two blocks
newSizeTwo(idx, bs) == (idx + 2) * bs

\* AllocateBlock, "allocate new block": the size the mapper is truncated to
newSize(idx, bs) == (idx + 1) * bs

\* consumeHeader that ends the chain at block 0
consumeHeaderCut(f, msize, bs, hdrIdx, nextHdrIdx) ==
  LET e == mapHeaderBlock(f, msize, bs, 0)
  IN  IF e # "nil" THEN Result(f, msize, 0, e)
      ELSE Result([f EXCEPT ![0].next = 0], msize, hdrIdx, "nil")

\* consumeHeader that also empties the list of the header block that
\* becomes the first one
consumeHeaderWipe(f, msize, bs, hdrIdx, nextHdrIdx) ==
  LET e == mapHeaderBlock(f, msize, bs, 0)
  IN  IF e # "nil" THEN Result(f, msize, 0, e)
      ELSE Result([f EXCEPT ![0].next = nextHdrIdx, ![nextHdrIdx].free_head = 0],
                  msize, hdrIdx, "nil")

\* AllocateBlock, "change next of page 0": the empty header block hdrIdx is
\* taken out of the chain and returned
consumeHeader(f, msize, bs, hdrIdx, nextHdrIdx) ==
  LET e == mapHeaderBlock(f, msize, bs, 0)
  IN  IF e # "nil" THEN Result(f, msize, 0, e)
      ELSE Result([f EXCEPT ![0].next = nextHdrIdx], msize, hdrIdx, "nil")

\* allocFromNext that takes the header block without looking at its entries
allocFromNextSkip(f, msize, bs, hdrIdx) ==
  LET e == mapHeaderBlock(f, msize, bs, hdrIdx)
  IN  IF e # "nil" THEN Result(f, msize, 0, e)
      ELSE consumeHeader(f, msize, bs, hdrIdx, f[hdrIdx].next)

\* AllocateBlock, the branch nextHdrIdx # 0: pop from the first overflow
\* header block, or consume it when it is empty
allocFromNext(f, msize, bs, hdrIdx) ==
  LET e == mapHeaderBlock(f, msize, bs, hdrIdx)
  IN  IF e # "nil" THEN Result(f, msize, 0, e)
      ELSE LET p == freeListPop(f[hdrIdx])
           IN  IF p.err = "nil"
               THEN Result([f EXCEPT ![hdrIdx] = p.hdr], msize, p.entry, "nil")
               ELSE consumeHeader(f, msize, bs, hdrIdx, f[hdrIdx].next)

\* AllocateBlock, the last branch: extend the file by one block
allocNewBlock(f, m, sz, bs) ==
  LET idx == newBlockIndex(Size(m, sz), bs)
      t   == Truncate(m, sz, newSize(idx, bs))
  IN  IF t.err # "nil" THEN Result(f, sz, 0, t.err)
      ELSE Result(f, t.size, idx, "nil")

\* AllocateBlock that extends the file whenever the root is empty
AllocateBlockNoChain(f, m, sz, bs) ==
  LET e == mapHeaderBlock(f, Size(m, sz), bs, 0)
  IN  IF e # "nil" THEN Result(f, sz, 0, e)
      ELSE LET p == freeListPop(f[0])
           IN  IF p.err = "nil"
               THEN Result([f EXCEPT ![0] = p.hdr], sz, p.entry, "nil")
               ELSE allocNewBlock(f, m, sz, bs)

\* BlockFile.AllocateBlock
AllocateBlock(f, m, sz, bs) ==
  LET e == mapHeaderBlock(f, Size(m, sz), bs, 0)
  IN  IF e # "nil" THEN Result(f, sz, 0, e)
      ELSE LET p == freeListPop(f[0])
           IN  IF p.err = "nil"
               THEN Result([f EXCEPT ![0] = p.hdr], sz, p.entry, "nil")
               ELSE IF f[0].next # 0
                    THEN allocFromNext(f, Size(m, sz), bs, f[0].next)
                    ELSE allocNewBlock(f, m, sz, bs)

\* ------------------------------------------------------------------ freeing

\* freeToNext that finds the first overflow header full whatever it holds
freeToNextNever(f, msize, bs, nextHdrIdx, block) ==
  LET e == mapHeaderBlock(f, msize, bs, nextHdrIdx)
  IN  IF e # "nil" THEN [blocks |-> f, err |-> e]
      ELSE [blocks |-> f, err |-> "EOF"]

\* FreeBlock, the branch nextHdrIdx # 0: push onto the first overflow header
freeToNext(f, msize, bs, nextHdrIdx, block) ==
  LET e == mapHeaderBlock(f, msize, bs, nextHdrIdx)
  IN  IF e # "nil" THEN [blocks |-> f, err |-> e]
      ELSE LET q == freeListPush(f[nextHdrIdx], block)
           IN  IF q.err = "nil"
               THEN [blocks |-> [f EXCEPT ![nextHdrIdx] = q.hdr], err |-> "nil"]
               ELSE [blocks |-> f, err |-> q.err]

\* freeAsHeader without "change next of page 0"
freeAsHeaderUnlinked(f, msize, bs, nextHdrIdx, block) ==
  LET i == initHeaderBlock(f, msize, bs, block)
  IN  IF i.err # "nil" THEN [blocks |-> f, err |-> i.err]
      ELSE [blocks |-> [i.blocks EXCEPT ![block].next = nextHdrIdx], err |-> "nil"]

\* freeAsHeader that links the new header block to itself
freeAsHeaderSelf(f, msize, bs, nextHdrIdx, block) ==
  LET i == initHeaderBlock(f, msize, bs, block)
  IN  IF i.err # "nil" THEN [blocks |-> f, err |-> i.err]
      ELSE LET f1 == [i.blocks EXCEPT ![block].next = block]
               e  == mapHeaderBlock(f1, msize, bs, 0)
           IN  IF e # "nil" THEN [blocks |-> f1, err |-> e]
               ELSE [blocks |-> [f1 EXCEPT ![0].next = block], err |-> "nil"]

\* freeAsHeader that leaves next of the new header block 0
freeAsHeaderNoNext(f, msize, bs, nextHdrIdx, block) ==
  LET i == initHeaderBlock(f, msize, bs, block)
  IN  IF i.err # "nil" THEN [blocks |-> f, err |-> i.err]
      ELSE LET e == mapHeaderBlock(i.blocks, msize, bs, 0)
           IN  IF e # "nil" THEN [blocks |-> i.blocks, err |-> e]
               ELSE [blocks |-> [i.blocks EXCEPT ![0].next = block], err |-> "nil"]

\* FreeBlock, "map block to a new header" and "change next of page 0"
freeAsHeader(f, msize, bs, nextHdrIdx, block) ==
  LET i == initHeaderBlock(f, msize, bs, block)
  IN  IF i.err # "nil" THEN [blocks |-> f, err |-> i.err]
      ELSE LET f1 == [i.blocks EXCEPT ![block].next = nextHdrIdx]
               e  == mapHeaderBlock(f1, msize, bs, 0)
           IN  IF e # "nil" THEN [blocks |-> f1, err |-> e]
               ELSE [blocks |-> [f1 EXCEPT ![0].next = block], err |-> "nil"]

\* BlockFile.FreeBlock
FreeBlock(f, msize, bs, block) ==
  LET e == mapHeaderBlock(f, msize, bs, 0)
  IN  IF e # "nil" THEN [blocks |-> f, err |-> e]
      ELSE LET q == freeListPush(f[0], block)
               nextHdrIdx == f[0].next
           IN  IF q.err = "nil"
               THEN [blocks |-> [f EXCEPT ![0] = q.hdr], err |-> "nil"]
               ELSE LET r == IF nextHdrIdx # 0
                             THEN freeToNext(f, msize, bs, nextHdrIdx, block)
                             ELSE [blocks |-> f, err |-> "EOF"]
                    IN  IF r.err # "EOF" THEN r
                        ELSE freeAsHeader(f, msize, bs, nextHdrIdx, block)

\* ------------------------------------------------------------ open and close

\* OpenBlockFileFromMapper: the error, if any, and the blocksize read
OpenBlockFileFromMapper(f, msize) ==
  LET e == IF Map(msize, 0, bfHeaderSize) # "nil" THEN Map(msize, 0, bfHeaderSize)
           ELSE IF bfHeaderFromSlice(bfHeaderSize) # "nil" THEN bfHeaderFromSlice(bfHeaderSize)
           ELSE Validate(f[0])
  IN  IF e # "nil" THEN [err |-> e, blocksize |-> 0]
      ELSE IF msize < f[0].blocksize THEN [err |-> "mapper small", blocksize |-> 0]
      ELSE [err |-> "nil", blocksize |-> f[0].blocksize]

\* the file CreateMappedFile(filename, blocksize) leaves: truncated, zero filled
ZeroFile == [b \in BlockIdx |-> ZeroBlock]

\* CreateBlockFileInMapperWithSize: block 0 becomes an empty header
CreateBlockFileInMapperWithSize(f, msize, blocksize) ==
  initHeaderBlock(f, msize, blocksize, 0)

\* the bytes of a block while a client holds it: the client owns them (it
\* reads and writes them through MapBlock); the clients of the model store
\* zero bytes
ClientData == ZeroBlock

\* the client's write into the block it was given
clientWrite(f, block) ==
  IF block \in DOMAIN f THEN [f EXCEPT ![block] = ClientData] ELSE f

\* ------------------------------------------------------------------ helpers

Remove(s, x) == SelectSeq(s, LAMBDA y : y # x)

Range(s) == {s[k] : k \in 1 .. Len(s)}

RootCap == blocks[0].free_len

\* ----------------------------------------------------------- specification

\* CreateBlockFileWithSize(filename, B) for a B of BlockSizes
Init ==
  /\ peer \in BlockSizes
  /\ size = peer
  /\ blocks = CreateBlockFileInMapperWithSize(ZeroFile, peer, peer).blocks
  /\ mf = OpenedFile
  /\ bf = [mapper |-> TRUE, blocksize |-> peer]
  /\ off = 0
  /\ closer = TRUE
  /\ calls = NoCalls
  /\ out = NoOut
  /\ bytes = << >>
  /\ leaked = {}
  /\ misfreed = {}
  /\ procs = NoProcs
  /\ allocated = {}
  /\ freeOrder = << >>
  /\ freshAllocs = 0
  /\ everFreed = FALSE
  /\ everOver = FALSE
  /\ last = [op |-> "CreateBlockFileWithSize", arg |-> peer, ret |-> 0, err |-> "nil"]

\* a client calls bf.AllocateBlock() and stores its data in the block
DoAllocateBlock ==
  /\ bf.mapper
  /\ LET r == AllocateBlock(blocks, mf, size, bf.blocksize)
     IN  /\ r.size <= MaxBlocks * bf.blocksize
         /\ blocks' = IF r.err = "nil" THEN clientWrite(r.blocks, r.ret) ELSE r.blocks
         /\ size' = r.size
         /\ allocated' = IF r.err = "nil" THEN allocated \cup {r.ret} ELSE allocated
         /\ freeOrder' = IF r.err = "nil" THEN Remove(freeOrder, r.ret) ELSE freeOrder
         /\ freshAllocs' = IF everFreed THEN freshAllocs ELSE freshAllocs + 1
         /\ last' = [op |-> "AllocateBlock", arg |-> 0, ret |-> r.ret, err |-> r.err]
  /\ UNCHANGED <<mf, bf, everFreed, everOver, peer>>
  /\ UNCHANGED envVars

\* a client calls bf.FreeBlock(block) for a block it holds
DoFreeBlock ==
  /\ bf.mapper
  /\ \E block \in allocated :
       LET r == FreeBlock(blocks, Size(mf, size), bf.blocksize, block)
       IN  /\ blocks' = r.blocks
           /\ allocated' = IF r.err = "nil" THEN allocated \ {block} ELSE allocated
           /\ freeOrder' = IF r.err = "nil" THEN Append(freeOrder, block) ELSE freeOrder
           /\ everOver' = (everOver \/ Len(freeOrder') > RootCap)
           /\ last' = [op |-> "FreeBlock", arg |-> block, ret |-> 0, err |-> r.err]
  /\ everFreed' = TRUE
  /\ UNCHANGED <<size, mf, bf, freshAllocs, peer>>
  /\ UNCHANGED envVars

\* bf.Close(): the mapper is a Closer, MappedFile.Close unmaps and closes
DoClose ==
  /\ bf.mapper
  /\ bf' = [bf EXCEPT !.mapper = FALSE]
  /\ mf' = ClosedFile
  /\ last' = [op |-> "Close", arg |-> 0, ret |-> 0, err |-> "nil"]
  /\ UNCHANGED <<blocks, size, allocated, freeOrder, freshAllocs, everFreed, everOver, peer>>
  /\ UNCHANGED envVars

\* OpenBlockFile(filename) on the closed file: OpenMappedFile maps the whole
\* file, OpenBlockFileFromMapper reads the header of block 0
DoOpenBlockFile ==
  /\ ~bf.mapper
  /\ LET m == OpenedFile
         o == OpenBlockFileFromMapper(blocks, Size(m, size))
     IN  /\ mf' = m
         /\ bf' = IF o.err = "nil" THEN [mapper |-> TRUE, blocksize |-> o.blocksize] ELSE bf
         /\ last' = [op |-> "OpenBlockFile", arg |-> 0, ret |-> o.blocksize, err |-> o.err]
  /\ UNCHANGED <<blocks, size, allocated, freeOrder, freshAllocs, everFreed, everOver, peer>>
  /\ UNCHANGED envVars

Next ==
  \/ DoAllocateBlock
  \/ DoFreeBlock
  \/ DoClose
  \/ DoOpenBlockFile

Spec == Init /\ [][Next]_vars


\* ---------------------------------------------------------- free-list chain

RECURSIVE ChainFrom(_, _, _)
\* the header blocks met by following next from block n, at most k of them
ChainFrom(f, n, k) ==
  IF n = 0 \/ n \notin DOMAIN f \/ k = 0 THEN << >>
  ELSE <<n>> \o ChainFrom(f, f[n].next, k - 1)

\* the overflow header blocks reachable from block 0, nearest first
Chain(f) == ChainFrom(f, f[0].next, Cardinality(DOMAIN f) + 1)

ChainSet(f) == LET c == Chain(f) IN {c[k] : k \in 1 .. Len(c)}

\* the free-list nodes: the root and the overflow header blocks
NodeSet(f) == {0} \cup ChainSet(f)

\* the chain has no cycle and ends at a node whose next is 0
Acyclic(f) ==
  LET c == Chain(f)
      cs == {c[k] : k \in 1 .. Len(c)}
  IN  /\ \A j, k \in 1 .. Len(c) : j # k => c[j] # c[k]
      /\ 0 \notin cs
      /\ \A n \in {0} \cup cs : f[n].next = 0 \/ f[n].next \in cs

\* the positions <<node, slot>> of the valid free-list entries
EntryPos(f) ==
  LET ns == NodeSet(f) IN {p \in ns \X EntryIdx : p[2] < f[p[1]].free_head}

\* the number of times index i is listed as a free-list entry
Listed(f, i) ==
  LET ep == EntryPos(f) IN Cardinality({p \in ep : f[p[1]].entries[p[2]] = i})

Last(s) == s[Len(s)]

AllocReturned == last.op = "AllocateBlock" /\ last.err = "nil"


\* ------------------------------------------------------------------- claims

\* C1: on a fresh block file whose clients free only indices they hold,
\* AllocateBlock never returns an index that is currently allocated
\* (returned earlier and not freed since).
C1_NeverAllocatedTwice ==
  [][(last'.op = "AllocateBlock" /\ last'.err = "nil") => last'.ret \notin allocated]_vars

\* C1 happens: AllocateBlock has just handed out again an index that was
\* freed before, while other indices are held
C1_Witness ==
  /\ AllocReturned
  /\ everFreed
  /\ last.ret + 1 < size \div peer
  /\ Cardinality(allocated) >= 2

\* C2: after every AllocateBlock or FreeBlock every block index i with
\* 1 <= i < size/B is in exactly one state: allocated to a client, listed
\* exactly once as an entry of a free-list node, or an overflow header block
\* reachable from block 0.  No block is in two states, none is in no state.
C2_ExactlyOneState ==
  LET cs == ChainSet(blocks)
      ep == EntryPos(blocks)
      n(i) == Cardinality({p \in ep : blocks[p[1]].entries[p[2]] = i})
  IN  \A i \in 1 .. (size \div peer - 1) :
        \/ i \in allocated /\ n(i) = 0 /\ i \notin cs
        \/ i \notin allocated /\ n(i) = 1 /\ i \notin cs
        \/ i \notin allocated /\ n(i) = 0 /\ i \in cs

\* C2 happens: the three states occur together after a call
C2_Witness ==
  /\ last.op \in {"AllocateBlock", "FreeBlock"}
  /\ allocated # {}
  /\ ChainSet(blocks) # {}
  /\ \E i \in BlockIdx : Listed(blocks, i) = 1

\* C3: every index returned by AllocateBlock is in 1..ceil(size/B), size
\* being the size of the mapper after the call; block 0 is never returned.
C3_ReturnedInRange ==
  /\ AllocReturned =>
       /\ last.ret >= 1
       /\ last.ret <= (Size(mf, size) + peer - 1) \div peer
  /\ \A i \in allocated : i >= 1 /\ i <= (size + peer - 1) \div peer

\* C3 happens: AllocateBlock has extended the file and returned the new block
C3_Witness ==
  /\ AllocReturned
  /\ last.ret >= 2
  /\ size = (last.ret + 1) * peer

\* C4: after every AllocateBlock or FreeBlock the chain of header blocks
\* reached from block 0 by next is acyclic and ends at a node with next = 0,
\* and every index stored as a free-list entry appears in at most one node
\* and at most once in it.
C4_AcyclicNoDuplicates ==
  /\ Acyclic(blocks)
  /\ LET ep == EntryPos(blocks)
     IN  /\ \A p, q \in ep : p # q => blocks[p[1]].entries[p[2]] # blocks[q[1]].entries[q[2]]
         /\ \A p \in ep : blocks[p[1]].entries[p[2]] \in 1 .. MaxBlocks

\* C4 happens: two overflow header blocks are chained and two nodes hold entries
C4_Witness ==
  /\ Len(Chain(blocks)) >= 2
  /\ \E n, m \in NodeSet(blocks) : n # m /\ blocks[n].free_head > 0 /\ blocks[m].free_head > 0

\* C5: every free-list node reachable from block 0 has free_head <= free_len
\* and bfHeaderSize + 4*free_len <= B; a push on a node with count = capacity
\* and a pop on a node with count = 0 change nothing in the node.
C5_CountWithinCapacity ==
  \A n \in NodeSet(blocks) :
    /\ blocks[n].free_head >= 0
    /\ blocks[n].free_head <= blocks[n].free_len
    /\ bfHeaderSize + 4 * blocks[n].free_len <= peer
    /\ blocks[n].free_head = blocks[n].free_len =>
         \A x \in BlockIdx : /\ freeListPush(blocks[n], x).hdr = blocks[n]
                             /\ freeListPush(blocks[n], x).err = "EOF"
    /\ blocks[n].free_head = 0 =>
         /\ freeListPop(blocks[n]).hdr = blocks[n]
         /\ freeListPop(blocks[n]).err = "EOF"

\* C5 happens: the root is full, FreeBlock has pushed on it without effect
\* and made the block an overflow header block, which is empty
C5_Witness ==
  /\ last.op = "FreeBlock"
  /\ blocks[0].free_len > 0
  /\ blocks[0].free_head = blocks[0].free_len
  /\ blocks[0].next = last.arg
  /\ blocks[last.arg].free_head = 0


\* the entry on top of the stack of a node
Top(hdr) == slot(hdr, hdr.free_head - 1)

\* C6 as claimed: allocation order is LIFO over the whole free set: whenever
\* a block is freed and not yet reallocated, AllocateBlock returns the most
\* recently freed such block, also when the frees overflowed the root.
C6_LifoOverFreeSet ==
  [][(last'.op = "AllocateBlock" /\ last'.err = "nil" /\ freeOrder # << >>)
       => last'.ret = Last(freeOrder)]_vars

\* C6 amended: the root is consulted first: while blocks are free,
\* AllocateBlock returns the entry on top of the root when the root is not
\* empty, whether or not an overflow node holds blocks freed later; when the
\* root is empty or no overflow node exists it returns the most recently
\* freed block.
C6_RootFirstThenLifo ==
  [][(last'.op = "AllocateBlock" /\ last'.err = "nil" /\ freeOrder # << >>)
       => /\ blocks[0].free_head > 0 => last'.ret = Top(blocks[0])
          /\ (blocks[0].free_head = 0 \/ blocks[0].next = 0) => last'.ret = Last(freeOrder)
          /\ size' = size]_vars

\* C6 happens: AllocateBlock has popped the root and left a root entry,
\* while the first overflow node holds an entry
C6_Witness ==
  /\ AllocReturned
  /\ blocks[0].free_head >= 1
  /\ blocks[0].next # 0
  /\ blocks[blocks[0].next].free_head >= 1

\* C7: on a freshly created block file with no FreeBlock so far, the k-th
\* AllocateBlock returns k and leaves the file size at (k+1)*B bytes.
C7_FreshAllocSequence ==
  ~everFreed =>
    /\ size = (freshAllocs + 1) * peer
    /\ allocated = 1 .. freshAllocs
    /\ last.op = "AllocateBlock" => (last.err = "nil" /\ last.ret = freshAllocs)

\* C7 happens: B = 32, four allocations returned 1, 2, 3, 4, the size is 160
C7_Witness ==
  /\ ~everFreed
  /\ peer = 32
  /\ AllocReturned
  /\ last.ret = 4
  /\ size = 160

\* C8: while the number of freed and not reallocated blocks never exceeded
\* the capacity of the root, AllocateBlock returns the freed blocks in the
\* reverse order of their FreeBlock calls without growing the file, and only
\* when all are reused it extends the file by the next fresh index.
C8_ReverseOrderThenFresh ==
  [][(last'.op = "AllocateBlock" /\ ~everOver)
       => /\ last'.err = "nil"
          /\ freeOrder # << >> =>
               (last'.ret = Last(freeOrder) /\ size' = size
                /\ freeOrder' = SubSeq(freeOrder, 1, Len(freeOrder) - 1))
          /\ freeOrder = << >> =>
               (last'.ret = size \div peer /\ size' = size + peer)]_vars

\* C8 happens: B = 32, after allocating 1, 2, 3 and freeing blocks, the freed
\* blocks are reused and AllocateBlock has returned the fresh index 4
C8_Witness ==
  /\ ~everOver
  /\ everFreed
  /\ peer = 32
  /\ AllocReturned
  /\ last.ret = 4
  /\ freeOrder = << >>
  /\ allocated = {1, 2, 3, 4}

\* C9: the allocator keeps no state outside the file: Close and OpenBlockFile
\* leave the bytes and the size of the file as they are, OpenBlockFile
\* succeeds with the blocksize of the allocator that created the file, and
\* the next AllocateBlock or FreeBlock of the reopened allocator has the
\* result the same call has on a peer that was never closed.
C9_ReopenRoundTrip ==
  [][/\ last'.op \in {"Close", "OpenBlockFile"} => (blocks' = blocks /\ size' = size)
     /\ last'.op = "OpenBlockFile" =>
          /\ last'.err = "nil"
          /\ bf'.mapper
          /\ bf'.blocksize = peer
          /\ Chain(blocks') = Chain(blocks)
          /\ AllocateBlock(blocks', mf', size', bf'.blocksize)
               = AllocateBlock(blocks', OpenedFile, size', peer)
          /\ \A i \in allocated' :
               FreeBlock(blocks', Size(mf', size'), bf'.blocksize, i)
                 = FreeBlock(blocks', size', peer, i)]_vars

\* C9 happens: a file with a chained overflow header block and free entries
\* has been reopened
C9_Witness ==
  /\ last.op = "OpenBlockFile"
  /\ bf.mapper
  /\ blocks[0].free_head > 0
  /\ Chain(blocks) # << >>
  /\ allocated # {}

\* C10: when the root has count = 0, root.next = n # 0 and node n has
\* count = 0, AllocateBlock returns n, sets root.next to the former next of
\* n and leaves the file size; n is no longer reachable from block 0.
C10_ConsumeAsStorage ==
  [][(/\ last'.op = "AllocateBlock"
      /\ blocks[0].free_head = 0
      /\ blocks[0].next # 0
      /\ blocks[blocks[0].next].free_head = 0)
       => /\ last'.err = "nil"
          /\ last'.ret = blocks[0].next
          /\ blocks'[0].next = blocks[blocks[0].next].next
          /\ size' = size
          /\ last'.ret \notin ChainSet(blocks')]_vars

\* C10 happens: B = 20, all nodes have capacity 0: AllocateBlock has consumed
\* the first overflow header block and another one is still chained
C10_Witness ==
  /\ peer = 20
  /\ AllocReturned
  /\ blocks[0].next # 0
  /\ last.ret \notin ChainSet(blocks)
  /\ last.ret + 1 < size \div peer

\* ------------------------------------------------- creation in a given mapper

\* the sizes of the mappers a client hands to CreateBlockFileInMapperWithSize
\* with blocksize B: too small, exact, not a multiple, two and three blocks
MapperSizes(B) == {B - 4, B, B + 4, 2 * B, 3 * B}

\* CreateBlockFileInMapperWithSize(m, B) for a zero-filled mapper m of a size
\* of MapperSizes(B): the BlockFile is returned when the header was written
InitCreate ==
  /\ peer \in BlockSizes
  /\ size \in MapperSizes(peer)
  /\ mf = OpenedFile
  /\ LET c == CreateBlockFileInMapperWithSize(ZeroFile, Size(mf, size), peer)
     IN  /\ blocks = c.blocks
         /\ bf = IF c.err = "nil" THEN [mapper |-> TRUE, blocksize |-> peer]
                 ELSE [mapper |-> FALSE, blocksize |-> 0]
         /\ last = [op |-> "CreateBlockFileInMapperWithSize", arg |-> peer, ret |-> 0, err |-> c.err]
  /\ off = 0
  /\ closer = TRUE
  /\ calls = NoCalls
  /\ out = NoOut
  /\ bytes = << >>
  /\ leaked = {}
  /\ misfreed = {}
  /\ procs = NoProcs
  /\ allocated = {}
  /\ freeOrder = << >>
  /\ freshAllocs = 0
  /\ everFreed = FALSE
  /\ everOver = FALSE

\* the allocator on a block file created in a mapper of any size
SpecCreate == InitCreate /\ [][Next]_vars

\* C11: CreateBlockFileInMapperWithSize(m, B) truncates the mapper to exactly
\* B bytes: after it succeeds m.Size() = B whatever the size of the mapper
\* was before, and the first AllocateBlock afterwards returns 1.
C11_TruncatesMapper ==
  /\ (last.op = "CreateBlockFileInMapperWithSize" /\ last.err = "nil")
       => Size(mf, size) = peer
  /\ (last.op = "AllocateBlock" /\ ~everFreed /\ freshAllocs = 1)
       => (last.err = "nil" /\ last.ret = 1)

\* C11 happens: the block file was created in a mapper that was larger than
\* one block, and the first AllocateBlock has returned
C11_Witness ==
  /\ AllocReturned
  /\ ~everFreed
  /\ freshAllocs = 1
  /\ size > 2 * peer

\* ------------------------------------------------- opening a file of any kind

\* a magic number that is neither BlockFileMagic nor its byte reversal
OtherMagic == <<177, 12, 241, 31>>

\* the values of the header fields of the files that are opened;
\* 1073741819 is 2^30 - 5 and 1073741822 is 2^30 - 2
OpenMagics == {BlockFileMagic, reversedBlockFileMagic, NoMagic, OtherMagic}
OpenBlockSizes == {0, 20, 24, 32, 64}
OpenFreeLens == {0, 1, 3, 4, 1073741819, 1073741820, 1073741822}
OpenFreeHeads == {0, 1, 2, 4}
OpenNexts == {0, 1}
\* the sizes of the files that are opened: 16 is shorter than a header
OpenSizes == {16, 20, 24, 32, 64}

\* a closed file whose first block starts with any header
InitOpen ==
  /\ size \in OpenSizes
  /\ \E m \in OpenMagics, b \in OpenBlockSizes, fl \in OpenFreeLens,
        fh \in OpenFreeHeads, n \in OpenNexts :
       blocks = [ZeroFile EXCEPT ![0] = [ZeroBlock EXCEPT !.magic = m, !.blocksize = b,
                                                            !.next = n, !.free_len = fl,
                                                            !.free_head = fh]]
  /\ peer = blocks[0].blocksize
  /\ mf = ClosedFile
  /\ bf = [mapper |-> FALSE, blocksize |-> 0]
  /\ off = 0
  /\ closer = TRUE
  /\ calls = NoCalls
  /\ out = NoOut
  /\ bytes = << >>
  /\ leaked = {}
  /\ misfreed = {}
  /\ procs = NoProcs
  /\ allocated = {}
  /\ freeOrder = << >>
  /\ freshAllocs = 0
  /\ everFreed = FALSE
  /\ everOver = FALSE
  /\ last = [op |-> "file", arg |-> 0, ret |-> 0, err |-> "nil"]

NextOpen ==
  \/ DoOpenBlockFile
  \/ DoClose

\* OpenBlockFile on any file, and Close of the BlockFile it returns
SpecOpen == InitOpen /\ [][NextOpen]_vars

\* the errors of Validate
FormatErrors == {"foreign", "magic", "freelist", "small"}

\* C12: OpenBlockFileFromMapper on a file whose magic field is 0x1EF10CB1
\* fails with the foreign-platform error and not with the generic
\* unexpected-magic error; any other magic different from 0xB10CF11E fails
\* with the generic magic error; in both cases no BlockFile is returned and
\* the bytes of the file are unchanged.  (The file holds a header: it has at
\* least bfHeaderSize bytes.)
C12_ForeignOrGenericMagic ==
  [][(last'.op = "OpenBlockFile" /\ size >= bfHeaderSize /\ blocks[0].magic # BlockFileMagic)
       => /\ blocks[0].magic = reversedBlockFileMagic => last'.err = "foreign"
          /\ blocks[0].magic # reversedBlockFileMagic => last'.err = "magic"
          /\ ~bf'.mapper
          /\ blocks' = blocks
          /\ size' = size]_vars

\* C12 happens: a file with the byte-reversed magic number, whose other
\* fields are those of a valid header, was refused as a foreign-platform file
C12_Witness ==
  /\ last.op = "OpenBlockFile"
  /\ last.err = "foreign"
  /\ blocks[0].magic = reversedBlockFileMagic
  /\ blocks[0].blocksize = 32
  /\ blocks[0].free_len = 3
  /\ blocks[0].free_head = 1
  /\ size = 64

\* 20 + 4*free_len > blocksize over the integers, written without the product
MathEndsBehind(free_len, blocksize) ==
  blocksize < bfHeaderSize \/ free_len > (blocksize - bfHeaderSize) \div 4

\* C13: header validation, on open and on every revalidation of a free-list
\* node, rejects with a format error every header with free_head > free_len
\* and every header with 20 + 4*free_len > blocksize computed as
\* mathematical integers, for every 32-bit free_len and blocksize; open also
\* fails when mapper.Size() < blocksize.
C13_RejectsBadHeaders ==
  [][(last'.op = "OpenBlockFile" /\ size >= bfHeaderSize)
       => /\ (\/ blocks[0].free_head > blocks[0].free_len
              \/ MathEndsBehind(blocks[0].free_len, blocks[0].blocksize))
               => /\ last'.err \in FormatErrors
                  /\ Validate(blocks[0]) \in FormatErrors
                  /\ \A bs \in BlockSizes :
                       size >= bs => mapHeaderBlock(blocks, size, bs, 0) \in FormatErrors
          /\ size < blocks[0].blocksize => last'.err # "nil"]_vars

\* C13 happens: a header with the right magic number whose free list does not
\* fit the block (free_len = 2^30 - 5, blocksize = 32) was opened
C13_Witness ==
  /\ last.op = "OpenBlockFile"
  /\ blocks[0].magic = BlockFileMagic
  /\ blocks[0].blocksize = 32
  /\ blocks[0].free_len = 1073741819
  /\ blocks[0].free_head = 0
  /\ size = 64

\* ------------------------------------------- calls in every state of BlockFile

\* MappedFile.munmap: the mapping is dropped before syscall.Munmap is called
munmap(m, fails) ==
  IF m.data
  THEN [m |-> [m EXCEPT !.data = FALSE], munmap |-> 1, err |-> IF fails THEN "munmap" ELSE "nil"]
  ELSE [m |-> m, munmap |-> 0, err |-> "nil"]

\* MappedFile.Close: the new region, the calls of syscall.Munmap and of
\* os.File.Close it makes, and its error; munmapFails and closeFails are the
\* outcomes of the two system calls
mfClose(m, munmapFails, closeFails) ==
  LET u == munmap(m, munmapFails)
  IN  IF u.err # "nil" THEN [m |-> u.m, munmap |-> u.munmap, fileClose |-> 0, err |-> u.err]
      ELSE IF u.m.file
           THEN [m |-> [u.m EXCEPT !.file = FALSE], munmap |-> u.munmap, fileClose |-> 1,
                 err |-> IF closeFails THEN "close" ELSE "nil"]
           ELSE [m |-> u.m, munmap |-> u.munmap, fileClose |-> 0, err |-> "nil"]

\* BlockFile.Close that keeps bf.mapper
CloseKeepMapper(b, m, isCloser, munmapFails, closeFails) ==
  IF b.mapper
  THEN IF isCloser
       THEN LET c == mfClose(m, munmapFails, closeFails)
            IN  [bf |-> b, m |-> c.m, mapperClose |-> 1,
                 munmap |-> c.munmap, fileClose |-> c.fileClose, err |-> c.err]
       ELSE [bf |-> b, m |-> m, mapperClose |-> 0,
             munmap |-> 0, fileClose |-> 0, err |-> "nil"]
  ELSE [bf |-> b, m |-> m, mapperClose |-> 0, munmap |-> 0, fileClose |-> 0, err |-> "nil"]

\* BlockFile.Close: bf.mapper is set to nil before the Close of the mapper is
\* called, which happens only when the mapper is an io.Closer
Close(b, m, isCloser, munmapFails, closeFails) ==
  IF b.mapper
  THEN IF isCloser
       THEN LET c == mfClose(m, munmapFails, closeFails)
            IN  [bf |-> [b EXCEPT !.mapper = FALSE], m |-> c.m, mapperClose |-> 1,
                 munmap |-> c.munmap, fileClose |-> c.fileClose, err |-> c.err]
       ELSE [bf |-> [b EXCEPT !.mapper = FALSE], m |-> m, mapperClose |-> 0,
             munmap |-> 0, fileClose |-> 0, err |-> "nil"]
  ELSE [bf |-> b, m |-> m, mapperClose |-> 0, munmap |-> 0, fileClose |-> 0, err |-> "nil"]

\* bf.AllocateBlock() in any state of bf: after Close bf.mapper is the nil
\* interface and bf.mapper.Map is a nil dereference, a run-time panic
bfAllocateBlock(b, f, m, sz) ==
  IF ~b.mapper THEN Result(f, sz, 0, "panic")
  ELSE AllocateBlock(f, m, sz, b.blocksize)

\* bf.FreeBlock(block) in any state of bf
bfFreeBlock(b, f, msize, block) ==
  IF ~b.mapper THEN [blocks |-> f, err |-> "panic"]
  ELSE FreeBlock(f, msize, b.blocksize, block)

\* BlockFile.MapBlock with the test for the header block (the MapBlock that
\* refuses block <= 0)
MapBlockGuarded(b, msize, block) ==
  IF block <= 0 THEN [err |-> "header", invoked |-> FALSE, offs |-> 0, length |-> 0]
  ELSE IF ~b.mapper THEN [err |-> "panic", invoked |-> FALSE, offs |-> 0, length |-> 0]
  ELSE [err |-> Map(msize, block * b.blocksize, b.blocksize),
        invoked |-> Map(msize, block * b.blocksize, b.blocksize) = "nil",
        offs |-> block * b.blocksize, length |-> b.blocksize]

\* BlockFile.MapBlock: a wrapper of Mapper.Map; the handler is invoked when
\* Map succeeds
MapBlock(b, msize, block) ==
  IF ~b.mapper THEN [err |-> "panic", invoked |-> FALSE, offs |-> 0, length |-> 0]
  ELSE [err |-> Map(msize, block * b.blocksize, b.blocksize),
        invoked |-> Map(msize, block * b.blocksize, b.blocksize) = "nil",
        offs |-> block * b.blocksize, length |-> b.blocksize]

RECURSIVE allocateBlocksLoop(_, _, _, _, _, _)
\* AllocateBlocks, the loop: stops at the first AllocateBlock that fails
allocateBlocksLoop(b, f, m, sz, num, got) ==
  IF Len(got) >= num THEN Result(f, sz, got, "nil")
  ELSE LET r == bfAllocateBlock(b, f, m, sz)
       IN  IF r.err # "nil" THEN Result(r.blocks, r.size, got, r.err)
           ELSE allocateBlocksLoop(b, r.blocks, m, r.size, num, Append(got, r.ret))

\* AllocateBlocks that returns the whole slice when an AllocateBlock fails
AllocateBlocksWhole(b, f, m, sz, num) ==
  LET r == allocateBlocksLoop(b, f, m, sz, num, << >>)
  IN  [r EXCEPT !.ret = r.ret \o [k \in 1 .. (num - Len(r.ret)) |-> 0]]

\* BlockFile.AllocateBlocks
AllocateBlocks(b, f, m, sz, num) == allocateBlocksLoop(b, f, m, sz, num, << >>)

RECURSIVE freeBlocksLoop(_, _, _, _, _)
\* FreeBlocks, the loop: n entries are freed, the rest of the list is left
freeBlocksLoop(b, f, msize, rest, n) ==
  IF rest = << >> THEN [blocks |-> f, ret |-> n, err |-> "nil"]
  ELSE LET r == bfFreeBlock(b, f, msize, Head(rest))
       IN  IF r.err # "nil" THEN [blocks |-> r.blocks, ret |-> n, err |-> r.err]
           ELSE freeBlocksLoop(b, r.blocks, msize, Tail(rest), n + 1)

RECURSIVE freeBlocksSkipLoop(_, _, _, _, _)
\* the loop of FreeBlocksSkip
freeBlocksSkipLoop(b, f, msize, rest, acc) ==
  IF rest = << >> THEN [blocks |-> f, ret |-> acc.n, err |-> acc.err]
  ELSE LET r == bfFreeBlock(b, f, msize, Head(rest))
       IN  IF r.err # "nil"
           THEN freeBlocksSkipLoop(b, r.blocks, msize, Tail(rest),
                                   [n |-> acc.n, err |-> IF acc.err = "nil" THEN r.err ELSE acc.err])
           ELSE freeBlocksSkipLoop(b, r.blocks, msize, Tail(rest),
                                   [n |-> IF acc.err = "nil" THEN acc.n + 1 ELSE acc.n, err |-> acc.err])

\* FreeBlocks that goes on with the entries behind the one that failed
FreeBlocksSkip(b, f, msize, list) ==
  freeBlocksSkipLoop(b, f, msize, list, [n |-> 0, err |-> "nil"])

\* BlockFile.FreeBlocks
FreeBlocks(b, f, msize, list) == freeBlocksLoop(b, f, msize, list, 0)

\* a Truncate that fails and leaves the region mapped as it was
afterTruncateKeep(m, err) == m

\* the region after Truncate: a Truncate that failed in os.File.Truncate or
\* in Mmap has unmapped the region and not mapped it again
afterTruncate(m, err) == IF err \in {"os", "mmap"} THEN [m EXCEPT !.data = FALSE] ELSE m

\* the elements of a sequence
\* the clients' writes into the blocks they were given
clientWriteAll(f, got) ==
  [x \in BlockIdx |-> IF x \in Range(got) THEN ClientData ELSE f[x]]

\* block sizes of the block files whose calls are followed: capacities 0, 1
CallBlockSizes == {20, 24}

\* AllocateBlocks is called with num in 0 .. MaxNum
MaxNum == 2

\* FreeBlocks is called with lists of at most MaxList entries
MaxList == 2

\* an index behind the end of every file of the model
BeyondFile == MaxBlocks

\* the size at which the file system stops the growth of the file: four blocks
Quota(B) == 4 * B

\* the lists without repetition of at most MaxList entries of S
Lists(S) ==
  UNION {{s \in [1 .. n -> S] : \A j, k \in 1 .. n : j # k => s[j] # s[k]} : n \in 0 .. MaxList}

\* the indices a client passes to FreeBlock and FreeBlocks: those it holds
\* and, unless already handed back, one that is no block of the file
Freeable == allocated \cup ({BeyondFile} \ Range(freeOrder))

\* CreateBlockFileWithSize(filename, B) on a file system with a quota; the
\* mapper is the MappedFile or a Mapper that is no io.Closer
InitCalls ==
  /\ peer \in CallBlockSizes
  /\ size = peer
  /\ blocks = CreateBlockFileInMapperWithSize(ZeroFile, peer, peer).blocks
  /\ mf = [OpenedFile EXCEPT !.quota = Quota(peer)]
  /\ bf = [mapper |-> TRUE, blocksize |-> peer]
  /\ off = 0
  /\ closer \in BOOLEAN
  /\ calls = NoCalls
  /\ out = NoOut
  /\ bytes = << >>
  /\ leaked = {}
  /\ misfreed = {}
  /\ procs = NoProcs
  /\ allocated = {}
  /\ freeOrder = << >>
  /\ freshAllocs = 0
  /\ everFreed = FALSE
  /\ everOver = FALSE
  /\ last = [op |-> "CreateBlockFileWithSize", arg |-> peer, ret |-> 0, err |-> "nil"]

\* bf.AllocateBlock(), before or after bf.Close()
CallAllocateBlock ==
  /\ LET r == bfAllocateBlock(bf, blocks, mf, size)
     IN  /\ blocks' = IF r.err = "nil" THEN clientWrite(r.blocks, r.ret) ELSE r.blocks
         /\ size' = r.size
         /\ mf' = afterTruncate(mf, r.err)
         /\ allocated' = IF r.err = "nil" THEN allocated \cup {r.ret} ELSE allocated
         /\ freeOrder' = IF r.err = "nil" THEN Remove(freeOrder, r.ret) ELSE freeOrder
         /\ last' = [op |-> "AllocateBlock", arg |-> 0, ret |-> r.ret, err |-> r.err]
  /\ out' = NoOut
  /\ UNCHANGED <<bf, freshAllocs, everFreed, everOver, peer, off, closer, calls, bytes, leaked, misfreed, procs>>

\* bf.AllocateBlocks(num), before or after bf.Close()
CallAllocateBlocks ==
  /\ \E num \in 0 .. MaxNum :
       LET r == AllocateBlocks(bf, blocks, mf, size, num)
       IN  /\ blocks' = clientWriteAll(r.blocks, r.ret)
           /\ size' = r.size
           /\ mf' = afterTruncate(mf, r.err)
           /\ allocated' = allocated \cup Range(r.ret)
           /\ freeOrder' = SelectSeq(freeOrder, LAMBDA y : y \notin Range(r.ret))
           /\ out' = [NoOut EXCEPT !.got = r.ret]
           /\ last' = [op |-> "AllocateBlocks", arg |-> num, ret |-> Len(r.ret), err |-> r.err]
  /\ UNCHANGED <<bf, freshAllocs, everFreed, everOver, peer, off, closer, calls, bytes, leaked, misfreed, procs>>

\* bf.FreeBlock(block), before or after bf.Close()
CallFreeBlock ==
  /\ \E block \in Freeable :
       LET r == bfFreeBlock(bf, blocks, Size(mf, size), block)
       IN  /\ blocks' = r.blocks
           /\ allocated' = IF r.err = "nil" THEN allocated \ {block} ELSE allocated
           /\ freeOrder' = IF r.err = "nil" THEN Append(freeOrder, block) ELSE freeOrder
           /\ last' = [op |-> "FreeBlock", arg |-> block, ret |-> 0, err |-> r.err]
  /\ out' = NoOut
  /\ UNCHANGED <<size, mf, bf, freshAllocs, everFreed, everOver, peer, off, closer, calls, bytes, leaked, misfreed, procs>>

\* bf.FreeBlocks(list), before or after bf.Close()
CallFreeBlocks ==
  /\ \E list \in Lists(Freeable) :
       LET r == FreeBlocks(bf, blocks, Size(mf, size), list)
           freed == SubSeq(list, 1, r.ret)
       IN  /\ blocks' = r.blocks
           /\ allocated' = allocated \ Range(freed)
           /\ freeOrder' = freeOrder \o freed
           /\ out' = [NoOut EXCEPT !.list = list]
           /\ last' = [op |-> "FreeBlocks", arg |-> Len(list), ret |-> r.ret, err |-> r.err]
  /\ UNCHANGED <<size, mf, bf, freshAllocs, everFreed, everOver, peer, off, closer, calls, bytes, leaked, misfreed, procs>>

\* bf.MapBlock(block, fn) with a handler fn that reads the block, before or
\* after bf.Close().  blockfile.go holds MapBlock without the test for the
\* header block (two revisions) and with it (one revision): either is called
CallMapBlock ==
  /\ \E block \in -1 .. MaxBlocks, guarded \in BOOLEAN :
       LET r == IF guarded THEN MapBlockGuarded(bf, Size(mf, size), block)
                ELSE MapBlock(bf, Size(mf, size), block)
       IN  /\ out' = [NoOut EXCEPT !.invoked = r.invoked, !.offs = r.offs, !.length = r.length]
           /\ last' = [op |-> "MapBlock", arg |-> block, ret |-> 0, err |-> r.err]
  /\ UNCHANGED <<blocks, size, mf, bf, allocated, freeOrder, freshAllocs, everFreed, everOver,
                 peer, off, closer, calls, bytes, leaked, misfreed, procs>>

\* bf.Close(), the first or a later one; the system calls of the Close of
\* the mapper succeed or fail
CallClose ==
  /\ \E munmapFails, closeFails \in BOOLEAN :
       LET c == Close(bf, mf, closer, munmapFails, closeFails)
       IN  /\ bf' = c.bf
           /\ mf' = c.m
           /\ calls' = [mapperClose |-> calls.mapperClose + c.mapperClose,
                        munmap |-> calls.munmap + c.munmap,
                        fileClose |-> calls.fileClose + c.fileClose]
           /\ last' = [op |-> "Close", arg |-> calls.mapperClose, ret |-> c.mapperClose, err |-> c.err]
  /\ out' = NoOut
  /\ UNCHANGED <<blocks, size, allocated, freeOrder, freshAllocs, everFreed, everOver,
                 peer, off, closer, bytes, leaked, misfreed, procs>>

NextCalls ==
  \/ CallAllocateBlock
  \/ CallAllocateBlocks
  \/ CallFreeBlock
  \/ CallFreeBlocks
  \/ CallMapBlock
  \/ CallClose

\* the calls of a client, single and in batches, on an open or closed BlockFile
SpecCalls == InitCalls /\ [][NextCalls]_vars

\* C14: MapBlock(i, fn) fails without invoking fn for every i <= 0 (block 0
\* is the root header and is not mappable by clients); for i >= 1 it invokes
\* the mapper with offset i*B and length B.
C14_HeaderBlockNotMappable ==
  [][(last'.op = "MapBlock" /\ bf.mapper)
       => /\ last'.arg <= 0 => (last'.err # "nil" /\ ~out'.invoked)
          /\ last'.arg >= 1 => (/\ out'.offs = last'.arg * bf.blocksize
                                /\ out'.length = bf.blocksize
                                /\ out'.invoked = (last'.err = "nil"))]_vars

\* C14 happens: MapBlock(0, fn) has returned on an open block file that
\* holds allocated blocks
C14_Witness ==
  /\ last.op = "MapBlock"
  /\ last.arg = 0
  /\ out.invoked
  /\ bf.mapper
  /\ mf.data
  /\ allocated # {}

RECURSIVE AfterAllocs(_, _, _, _, _)
\* the file after j calls of AllocateBlock one after the other, the indices
\* they returned, and whether all of them succeeded
AfterAllocs(f, m, sz, bs, j) ==
  IF j = 0 THEN [blocks |-> f, size |-> sz, got |-> << >>, ok |-> TRUE]
  ELSE LET p == AfterAllocs(f, m, sz, bs, j - 1)
           r == AllocateBlock(p.blocks, m, p.size, bs)
       IN  [blocks |-> r.blocks, size |-> r.size, got |-> Append(p.got, r.ret),
            ok |-> p.ok /\ r.err = "nil"]

\* C15: AllocateBlocks(k): if the j-th underlying AllocateBlock (0-based)
\* fails, it returns exactly the j indices obtained so far, in order, with
\* that error, and those j blocks stay allocated (they are not returned to
\* the free list); with no failure it returns k pairwise distinct indices
\* and a nil error.
C15_AllocateBlocksPrefix ==
  [][(last'.op = "AllocateBlocks" /\ bf.mapper)
       => LET k == last'.arg
              j == Len(out'.got)
              p == AfterAllocs(blocks, mf, size, bf.blocksize, j)
          IN  /\ j <= k
              /\ p.ok
              /\ out'.got = p.got
              /\ (last'.err = "nil") <=> (j = k)
              /\ j < k =>
                   /\ last'.err = AllocateBlock(p.blocks, mf, p.size, bf.blocksize).err
                   /\ \A i \in Range(out'.got) :
                        Listed(blocks', i) = 0 /\ i \notin ChainSet(blocks')
                   /\ Range(out'.got) \subseteq allocated'
              /\ j = k =>
                   \A a, b \in 1 .. k : a # b => out'.got[a] # out'.got[b]]_vars

\* C15 happens: AllocateBlocks(2) obtained one block, then the file system
\* refused to grow the file: it has returned that one index and the error
C15_Witness ==
  /\ last.op = "AllocateBlocks"
  /\ last.arg = 2
  /\ last.err = "os"
  /\ Len(out.got) = 1
  /\ out.got[1] \in allocated
  /\ ~mf.data

RECURSIVE AfterFrees(_, _, _, _, _)
\* the file after FreeBlock was called for the first n entries of list, and
\* whether all of these calls succeeded
AfterFrees(f, msize, bs, list, n) ==
  IF n = 0 THEN [blocks |-> f, ok |-> TRUE]
  ELSE LET p == AfterFrees(f, msize, bs, list, n - 1)
           r == FreeBlock(p.blocks, msize, bs, list[n])
       IN  [blocks |-> r.blocks, ok |-> p.ok /\ r.err = "nil"]

\* C16: FreeBlocks(list) frees the entries in list order and stops at the
\* first FreeBlock that fails, returning the number n of entries freed before
\* it and the error; entries after position n are not touched, and with no
\* failure it returns len(list) and nil.
C16_FreeBlocksStopsAtFailure ==
  [][(last'.op = "FreeBlocks" /\ bf.mapper)
       => LET list == out'.list
              n == last'.ret
              msize == Size(mf, size)
              p == AfterFrees(blocks, msize, bf.blocksize, list, n)
          IN  /\ n >= 0
              /\ n <= Len(list)
              /\ p.ok
              /\ (last'.err = "nil") <=> (n = Len(list))
              /\ n = Len(list) => blocks' = p.blocks
              /\ n < Len(list) =>
                   LET r == FreeBlock(p.blocks, msize, bf.blocksize, list[n + 1])
                   IN  /\ last'.err = r.err
                       /\ blocks' = r.blocks
                       /\ \A i \in (n + 1) .. Len(list) :
                            /\ Listed(blocks', list[i]) = Listed(blocks, list[i])
                            /\ (list[i] \in ChainSet(blocks')) = (list[i] \in ChainSet(blocks))
                            /\ (list[i] \in allocated') = (list[i] \in allocated)]_vars

\* C16 happens: FreeBlocks was given an index that is no block of the file
\* and behind it a block the client holds; the first FreeBlock has failed, 0
\* was returned and the second entry is still held
C16_Witness ==
  /\ last.op = "FreeBlocks"
  /\ last.ret = 0
  /\ last.err = "range"
  /\ mf.data
  /\ Len(out.list) = 2
  /\ out.list[1] = BeyondFile
  /\ out.list[2] \in allocated
  /\ Listed(blocks, out.list[2]) = 0

\* C17: BlockFile.Close is idempotent: the first Close calls the Close of the
\* underlying mapper at most once (only if the mapper is a Closer), and any
\* later Close returns nil without calling the Close of the mapper again,
\* also when the first Close returned the error of the mapper.
C17_CloseIdempotent ==
  [][last'.op = "Close"
       => /\ calls'.mapperClose <= 1
          /\ calls'.mapperClose # calls.mapperClose => (closer /\ bf.mapper)
          /\ last'.err # "nil" => (closer /\ bf.mapper)
          /\ ~bf'.mapper
          /\ ~bf.mapper => (/\ last'.err = "nil"
                            /\ calls' = calls
                            /\ mf' = mf
                            /\ bf' = bf)]_vars

\* C17 happens: the first Close returned the error of Munmap (the file is
\* still open), and a later Close has returned nil
C17_Witness ==
  /\ last.op = "Close"
  /\ last.err = "nil"
  /\ last.arg = 1
  /\ calls.mapperClose = 1
  /\ ~bf.mapper
  /\ ~mf.data
  /\ mf.file

\* the operations of the allocator
AllocatorOps == {"AllocateBlock", "AllocateBlocks", "FreeBlock", "FreeBlocks", "MapBlock"}

\* C18: after BlockFile.Close every allocator operation (AllocateBlock,
\* AllocateBlocks, FreeBlock, FreeBlocks, MapBlock) returns a "closed" state
\* error as a value, does not crash, and changes nothing.
C18_ClosedErrorAfterClose ==
  [][(~bf.mapper /\ last'.op \in AllocatorOps)
       => /\ last'.err = "closed"
          /\ UNCHANGED <<blocks, size, mf, bf>>]_vars

\* C18 happens: AllocateBlock was called on a BlockFile that was closed with
\* blocks allocated
C18_Witness ==
  /\ ~bf.mapper
  /\ calls.mapperClose = 1
  /\ last.op = "AllocateBlock"
  /\ allocated # {}

\* ------------------------------------------------------ the region by itself
\* MappedFile as a reader, writer and seeker.  The region is its state: data
\* (mapped or nil), its length, the cursor off and the file, and the bytes
\* of the file, which the shared mapping shows; Read and Write are followed
\* by their counts, ReadByte by the byte it returns.

SeekStart == 0
SeekCurrent == 1
SeekEnd == 2

\* the smaller of two numbers: the count of the built-in copy
Min(a, b) == IF a < b THEN a ELSE b

\* the result of a method: the new cursor, the count or value, the error
Ret(o, n, err) == [off |-> o, ret |-> n, err |-> err]

\* MappedFile.Sync
Sync(m) == IF ~m.data \/ ~m.file THEN "closed" ELSE "nil"

\* MappedFile.Len: the unread bytes
LenUnread(m, sz, o) == IF m.data THEN sz - o ELSE 0

\* MappedFile.Offset
Offset(m, o) == IF m.data THEN o ELSE 0

\* MappedFile.Next(n): the slice data[off : off+n] with n cut to Len(); the
\* slice expression panics when off+n < off.  ret is the length of the slice
mfNext(m, sz, o, n) ==
  LET k == Min(n, LenUnread(m, sz, o))
  IN  IF ~m.data THEN Ret(o, 0, "nil")
      ELSE IF k < 0 THEN Ret(o, 0, "panic")
      ELSE Ret(o + k, k, "nil")

\* MappedFile.Read with len(p) = length
Read(m, sz, o, length) ==
  IF ~m.data THEN Ret(o, 0, "closed")
  ELSE IF length = 0 THEN Ret(o, 0, "nil")
  ELSE IF o >= sz THEN Ret(o, 0, "EOF")
  ELSE Ret(o + Min(length, sz - o), Min(length, sz - o), "nil")

\* MappedFile.ReadByte on a region of sz bytes that holds the bytes b
ReadByte(m, sz, o, b) ==
  IF ~m.data THEN Ret(o, 0, "closed")
  ELSE IF o >= sz THEN Ret(o, 0, "EOF")
  ELSE Ret(o + 1, b[o + 1], "nil")

\* MappedFile.Write with len(p) = length
Write(m, sz, o, length) ==
  IF ~m.data THEN Ret(o, 0, "closed")
  ELSE IF length = 0 THEN Ret(o, 0, "nil")
  ELSE IF o >= sz THEN Ret(o, 0, "EOF")
  ELSE Ret(o + Min(length, sz - o), Min(length, sz - o), "nil")

\* MappedFile.WriteByte
WriteByte(m, sz, o) ==
  IF ~m.data THEN Ret(o, 0, "closed")
  ELSE IF o >= sz THEN Ret(o, 0, "EOF")
  ELSE Ret(o + 1, 0, "nil")

\* Seek without the test for the closed region
SeekUnchecked(m, sz, o, offset, whence) ==
  LET len == IF m.data THEN sz ELSE 0
      t == IF whence = SeekStart THEN offset
           ELSE IF whence = SeekCurrent THEN o + offset
           ELSE len + offset
  IN  IF whence \notin {SeekStart, SeekCurrent, SeekEnd} THEN Ret(o, o, "whence")
      ELSE IF t < 0 \/ t > len THEN Ret(o, o, "bounds")
      ELSE Ret(t, t, "nil")

\* MappedFile.Seek
Seek(m, sz, o, offset, whence) ==
  LET t == IF whence = SeekStart THEN offset
           ELSE IF whence = SeekCurrent THEN o + offset
           ELSE sz + offset
  IN  IF ~m.data THEN Ret(o, 0, "closed")
      ELSE IF whence \notin {SeekStart, SeekCurrent, SeekEnd} THEN Ret(o, o, "whence")
      ELSE IF t < 0 \/ t > sz THEN Ret(o, o, "bounds")
      ELSE Ret(t, t, "nil")

\* MappedFile.ReadAt with len(b) = length
ReadAt(m, sz, o, length, at) ==
  IF ~m.data THEN Ret(o, 0, "closed")
  ELSE IF at < 0 \/ sz < at THEN Ret(o, 0, "offset")
  ELSE IF Min(length, sz - at) < length THEN Ret(o, Min(length, sz - at), "EOF")
  ELSE Ret(o, length, "nil")

\* MappedFile.WriteAt with len(b) = length
WriteAt(m, sz, o, length, at) ==
  IF ~m.data THEN Ret(o, 0, "closed")
  ELSE IF at < 0 \/ sz < at THEN Ret(o, 0, "offset")
  ELSE IF Min(length, sz - at) < length THEN Ret(o, Min(length, sz - at), "EOF")
  ELSE Ret(o, length, "nil")

\* copy(dst[at:], p) on the bytes dst of the region: what does not fit is
\* left out
copy(b, at, p) ==
  [i \in 1 .. Len(b) |-> IF i > at /\ i <= at + Len(p) THEN p[i - at] ELSE b[i]]

\* the bytes of the region after Write(p), or after WriteByte(c) with
\* p = <<c>>
WriteData(m, b, o, p) ==
  IF ~m.data \/ Len(p) = 0 \/ o >= Len(b) THEN b
  ELSE copy(b, o, p)

\* the bytes of the region after WriteAt(p, at)
WriteAtData(m, b, p, at) ==
  IF ~m.data \/ at < 0 \/ Len(b) < at THEN b
  ELSE copy(b, at, p)

\* os.File.Truncate(n) on a file of bytes b: the bytes below n are kept, a
\* longer file is filled with zeros
fileTruncate(b, n) == [i \in 1 .. n |-> IF i <= Len(b) THEN b[i] ELSE 0]

\* OpenMappedFile that opens the file as CreateMappedFile does, with O_TRUNC,
\* and gives it its old size
OpenMappedFileTrunc(b, quota) ==
  [m |-> [OpenedFile EXCEPT !.quota = quota], size |-> Len(b),
   bytes |-> fileTruncate(<< >>, Len(b)), off |-> 0,
   err |-> IF Len(b) = 0 THEN "mmap" ELSE "nil"]

\* OpenMappedFile(filename) of a file that holds the bytes b: OPEN_FLAGS has
\* no O_TRUNC, the region is as long as the file and the cursor of the new
\* MappedFile is 0; Mmap refuses an empty file and no MappedFile is returned
OpenMappedFile(b, quota) ==
  [m |-> [OpenedFile EXCEPT !.quota = quota], size |-> Len(b), bytes |-> b, off |-> 0,
   err |-> IF Len(b) = 0 THEN "mmap" ELSE "nil"]

\* regions of 1 .. MaxRegion bytes are created
MaxRegion == 2

\* Close is called at most MaxCloses times on a region
MaxCloses == 2

\* the lengths of the slices passed to Read, Write, ReadAt and WriteAt
Lengths == 0 .. 2

\* the offsets passed to Seek, ReadAt and WriteAt
Offsets == -1 .. (MaxRegion + 1)

\* the whence values passed to Seek: the three known ones and another
Whences == {SeekStart, SeekCurrent, SeekEnd, 3}

\* the sizes passed to Truncate
TruncateSizes == -1 .. (MaxRegion + 1)

\* the values of the bytes the client writes; the bytes of a new file are 0
Values == {1}

allocVars ==
  <<blocks, bf, allocated, freeOrder, freshAllocs, everFreed, everOver, peer, closer, leaked,
    misfreed, procs>>

\* CreateMappedFile(filename, n) for n in 1 .. MaxRegion, on a file system
\* that lets the file grow or stops it at MaxRegion bytes
InitRegion ==
  /\ size \in 1 .. MaxRegion
  /\ \E q \in {MaxRegion, NoQuota} : mf = [OpenedFile EXCEPT !.quota = q]
  /\ off = 0
  /\ calls = NoCalls
  /\ out = NoOut
  /\ bytes = fileTruncate(<< >>, size)
  /\ leaked = {}
  /\ misfreed = {}
  /\ procs = NoProcs
  /\ blocks = ZeroFile
  /\ bf = [mapper |-> FALSE, blocksize |-> 0]
  /\ closer = TRUE
  /\ peer = 0
  /\ allocated = {}
  /\ freeOrder = << >>
  /\ freshAllocs = 0
  /\ everFreed = FALSE
  /\ everOver = FALSE
  /\ last = [op |-> "CreateMappedFile", arg |-> size, ret |-> 0, err |-> "nil"]

\* the effect of a method that moves at most the cursor and leaves the
\* bytes b in the region
Returns(op, arg, r, b) ==
  /\ off' = r.off
  /\ last' = [op |-> op, arg |-> arg, ret |-> r.ret, err |-> r.err]
  /\ bytes' = b
  /\ UNCHANGED <<size, mf, calls, out>>
  /\ UNCHANGED allocVars

RegionRead ==
  \E length \in Lengths :
    Returns("Read", length, Read(mf, size, off, length), bytes)

RegionReadByte ==
  Returns("ReadByte", 0, ReadByte(mf, size, off, bytes), bytes)

RegionWrite ==
  \E length \in Lengths : \E p \in [1 .. length -> Values] :
    Returns("Write", length, Write(mf, size, off, length), WriteData(mf, bytes, off, p))

RegionWriteByte ==
  \E c \in Values :
    Returns("WriteByte", 0, WriteByte(mf, size, off), WriteData(mf, bytes, off, <<c>>))

RegionSeek ==
  \E offset \in Offsets, whence \in Whences :
    Returns("Seek", offset, Seek(mf, size, off, offset, whence), bytes)

RegionReadAt ==
  \E length \in Lengths, at \in Offsets :
    Returns("ReadAt", at, ReadAt(mf, size, off, length, at), bytes)

RegionWriteAt ==
  \E length \in Lengths, at \in Offsets : \E p \in [1 .. length -> Values] :
    Returns("WriteAt", at, WriteAt(mf, size, off, length, at),
            WriteAtData(mf, bytes, p, at))

RegionNext ==
  \E n \in Lengths :
    Returns("Next", n, mfNext(mf, size, off, n), bytes)

RegionSize == Returns("Size", 0, Ret(off, Size(mf, size), "nil"), bytes)

RegionLen == Returns("Len", 0, Ret(off, LenUnread(mf, size, off), "nil"), bytes)

RegionSync == Returns("Sync", 0, Ret(off, 0, Sync(mf)), bytes)

\* mf.Truncate(n): the cursor is left where it is
RegionTruncate ==
  /\ \E n \in TruncateSizes :
       LET t == Truncate(mf, size, n)
       IN  /\ size' = t.size
           /\ mf' = afterTruncate(mf, t.err)
           /\ bytes' = IF t.err \in {"nil", "mmap"} THEN fileTruncate(bytes, n) ELSE bytes
           /\ last' = [op |-> "Truncate", arg |-> n, ret |-> 0, err |-> t.err]
  /\ UNCHANGED <<off, calls, out>>
  /\ UNCHANGED allocVars

\* mf.Close(), the first or a later one; Munmap and os.File.Close succeed or
\* fail
RegionClose ==
  /\ calls.mapperClose < MaxCloses
  /\ \E munmapFails, closeFails \in BOOLEAN :
       LET c == mfClose(mf, munmapFails, closeFails)
       IN  /\ mf' = c.m
           /\ calls' = [mapperClose |-> calls.mapperClose + 1,
                        munmap |-> calls.munmap + c.munmap,
                        fileClose |-> calls.fileClose + c.fileClose]
           /\ last' = [op |-> "Close", arg |-> calls.mapperClose, ret |-> 0, err |-> c.err]
  /\ UNCHANGED <<size, off, bytes, out>>
  /\ UNCHANGED allocVars

\* OpenMappedFile(filename) of the file of the region, after Close was called
\* on the MappedFile in use; when it fails the client is left with the
\* closed MappedFile
RegionOpen ==
  /\ calls.mapperClose >= 1
  /\ LET o == OpenMappedFile(bytes, mf.quota)
     IN  /\ mf' = IF o.err = "nil" THEN o.m ELSE mf
         /\ size' = o.size
         /\ bytes' = o.bytes
         /\ off' = IF o.err = "nil" THEN o.off ELSE off
         /\ calls' = IF o.err = "nil" THEN NoCalls ELSE calls
         /\ last' = [op |-> "OpenMappedFile", arg |-> 0, ret |-> o.size, err |-> o.err]
  /\ UNCHANGED out
  /\ UNCHANGED allocVars

NextRegion ==
  \/ RegionRead
  \/ RegionReadByte
  \/ RegionWrite
  \/ RegionWriteByte
  \/ RegionSeek
  \/ RegionNext
  \/ RegionReadAt
  \/ RegionWriteAt
  \/ RegionSize
  \/ RegionLen
  \/ RegionSync
  \/ RegionTruncate
  \/ RegionClose
  \/ RegionOpen

\* the calls of a client on a MappedFile, before and after Close
SpecRegion == InitRegion /\ [][NextRegion]_vars

\* the methods that return an error
RegionOps ==
  {"Sync", "Truncate", "Read", "ReadByte", "Write", "WriteByte", "Seek", "ReadAt", "WriteAt"}

\* C19: after MappedFile.Close, each of Sync, Truncate, Read, ReadByte,
\* Write, WriteByte, Seek, ReadAt and WriteAt returns the fixed error
\* "MappedFile: closed" with a zero count, Size() and Len() return 0, and
\* none of them changes the state of the region.
C19_ClosedRegion ==
  [][(calls.mapperClose >= 1 /\ last'.op \in RegionOps \cup {"Size", "Len"})
       => /\ last'.op \in RegionOps => last'.err = "closed"
          /\ last'.ret = 0
          /\ UNCHANGED <<mf, size, off, blocks, calls>>]_vars

\* C19 happens: a region whose cursor was moved was closed, and Seek has
\* returned the closed error
C19_Witness ==
  /\ calls.mapperClose >= 1
  /\ last.op = "Seek"
  /\ last.arg = 0
  /\ last.err = "closed"
  /\ off > 0
  /\ size > 1

\* C20: MappedFile.Close releases the mapping first and then the file; if
\* either stage fails the error is returned, but the state of the region is
\* cleared so that a second Close is a no-op: it performs no unmap and no
\* file close and returns nil.
C20_SecondCloseNoOp ==
  [][last'.op = "Close"
       => /\ calls'.fileClose > calls.fileClose => ~mf'.data
          /\ (calls'.munmap > calls.munmap /\ calls'.fileClose = calls.fileClose /\ mf.file)
               => last'.err = "munmap"
          /\ ~mf'.data
          /\ ~mf'.file
          /\ calls.mapperClose >= 1 =>
               /\ calls'.munmap = calls.munmap
               /\ calls'.fileClose = calls.fileClose
               /\ last'.err = "nil"
               /\ mf' = mf]_vars

\* C20 happens: the first Close returned the error of Munmap, and a second
\* Close has returned
C20_Witness ==
  /\ last.op = "Close"
  /\ last.arg = 1
  /\ calls.mapperClose = 2
  /\ calls.munmap = 1
  /\ ~mf.data
  /\ size > 1

\* ---------------------------------------------------------------------
\* Short writes through the cursor

CursorOps == {"Read", "ReadByte", "Write", "WriteByte"}

\* C21: Write returns a non-nil error whenever the count it returns differs
\* from len(p); a Write that starts before the end of the region and does
\* not fit returns the short count together with io.EOF; and no cursor read
\* or write changes Size().
C21_ShortWriteIsError ==
  [][ /\ last'.op = "Write" =>
           /\ last'.ret # last'.arg => last'.err # "nil"
           /\ (mf.data /\ off < size /\ last'.arg > size - off) =>
                (last'.ret = size - off /\ last'.err = "EOF")
      /\ last'.op \in CursorOps => Size(mf', size') = Size(mf, size)
    ]_vars

\* a Write of more bytes than are left before the end of an open region has
\* returned the count of the bytes that fitted
C21_Witness ==
  /\ last.op = "Write"
  /\ mf.data
  /\ last.ret > 0
  /\ last.ret < last.arg
  /\ off = size

\* ---------------------------------------------------------------------
\* The bytes of the region over Truncate, Close and OpenMappedFile

\* C22: a successful Truncate(n) makes Size() = n and leaves every byte at
\* an offset below min(old size, n) unchanged; the bytes written through the
\* region before Close are read back unchanged at the same offsets after
\* OpenMappedFile of the same file, whose Size() is the size at the Close:
\* no call on the closed MappedFile changes the file, OpenMappedFile maps
\* the bytes the file holds, and ReadByte returns the byte at the cursor.
C22_BytesSurvive ==
  [][ /\ (last'.op = "Truncate" /\ last'.err = "nil") =>
           /\ Size(mf', size') = last'.arg
           /\ Len(bytes') = last'.arg
           /\ \A i \in 1 .. Min(size, last'.arg) : bytes'[i] = bytes[i]
      /\ (calls.mapperClose >= 1 /\ last'.op # "OpenMappedFile") =>
           (bytes' = bytes /\ size' = size)
      /\ last'.op = "Close" => (bytes' = bytes /\ size' = size)
      /\ last'.op = "OpenMappedFile" =>
           /\ Size(mf', size') = size
           /\ bytes' = bytes
      /\ (last'.op = "ReadByte" /\ last'.err = "nil") =>
           (last'.ret = bytes[off + 1] /\ bytes' = bytes)
    ]_vars

\* a file that was written through a region, closed and opened again holds
\* a byte that was written
C22_Witness ==
  /\ last.op = "OpenMappedFile"
  /\ mf.data
  /\ Size(mf, size) = Len(bytes)
  /\ \E i \in 1 .. Len(bytes) : bytes[i] \in Values

\* ---------------------------------------------------------------------
\* Calls that stop half-way: the process ends inside FreeBlock or inside
\* AllocateBlock, the stores made so far stay in the shared mapping of the
\* file, and the file is opened again

\* FreeBlock(block) that stops when all its stores are made
FreeBlockStoppedLate(f, msize, bs, block) == FreeBlock(f, msize, bs, block)

\* FreeBlock(block) that takes the branch "map block to a new header" and
\* stops after initHeaderBlock has returned, before "change next of page 0";
\* err is "nil" when the call takes that branch and gets that far
FreeBlockStopped(f, msize, bs, block) ==
  LET e == mapHeaderBlock(f, msize, bs, 0)
      nextHdrIdx == f[0].next
      r == IF nextHdrIdx # 0
           THEN freeToNext(f, msize, bs, nextHdrIdx, block)
           ELSE [blocks |-> f, err |-> "EOF"]
      i == initHeaderBlock(f, msize, bs, block)
  IN  IF e # "nil" THEN [blocks |-> f, err |-> e]
      ELSE IF freeListPush(f[0], block).err = "nil" THEN [blocks |-> f, err |-> "pushed"]
      ELSE IF r.err # "EOF" THEN [blocks |-> f, err |-> "pushed"]
      ELSE IF i.err # "nil" THEN [blocks |-> f, err |-> i.err]
      ELSE [blocks |-> [i.blocks EXCEPT ![block].next = nextHdrIdx], err |-> "nil"]

\* AllocateBlockStopped that never gets to "change next of page 0"
AllocateBlockStoppedEarly(f, msize, bs, unlinked) ==
  LET e == mapHeaderBlock(f, msize, bs, 0)
      hdrIdx == f[0].next
      e1 == mapHeaderBlock(f, msize, bs, hdrIdx)
  IN  IF e # "nil" THEN Result(f, msize, 0, e)
      ELSE IF freeListPop(f[0]).err = "nil" \/ hdrIdx = 0 THEN Result(f, msize, 0, "other")
      ELSE IF e1 # "nil" THEN Result(f, msize, 0, e1)
      ELSE IF freeListPop(f[hdrIdx]).err = "nil" THEN Result(f, msize, 0, "other")
      ELSE Result(f, msize, hdrIdx, "nil")

\* AllocateBlock that finds the root and the first overflow header block
\* hdrIdx empty and stops before "change next of page 0" (unlinked = FALSE)
\* or after it, before the return (unlinked = TRUE); err is "nil" when the
\* call takes that branch and gets that far
AllocateBlockStopped(f, msize, bs, unlinked) ==
  LET e == mapHeaderBlock(f, msize, bs, 0)
      hdrIdx == f[0].next
      e1 == mapHeaderBlock(f, msize, bs, hdrIdx)
      c == consumeHeader(f, msize, bs, hdrIdx, f[hdrIdx].next)
  IN  IF e # "nil" THEN Result(f, msize, 0, e)
      ELSE IF freeListPop(f[0]).err = "nil" \/ hdrIdx = 0 THEN Result(f, msize, 0, "other")
      ELSE IF e1 # "nil" THEN Result(f, msize, 0, e1)
      ELSE IF freeListPop(f[hdrIdx]).err = "nil" THEN Result(f, msize, 0, "other")
      ELSE IF unlinked THEN c
      ELSE Result(f, msize, hdrIdx, "nil")

\* the block sizes of the files of the calls that stop or that free a
\* block no client holds: capacity 0 and 1
SmallBlockSizes == {20, 24}

\* a call may stop and lose a block as long as the file has lost none
NoneLost == leaked = {}

InitSmall ==
  /\ peer \in SmallBlockSizes
  /\ size = peer
  /\ blocks = CreateBlockFileInMapperWithSize(ZeroFile, peer, peer).blocks
  /\ mf = OpenedFile
  /\ bf = [mapper |-> TRUE, blocksize |-> peer]
  /\ off = 0
  /\ closer = TRUE
  /\ calls = NoCalls
  /\ out = NoOut
  /\ bytes = << >>
  /\ leaked = {}
  /\ misfreed = {}
  /\ procs = NoProcs
  /\ allocated = {}
  /\ freeOrder = << >>
  /\ freshAllocs = 0
  /\ everFreed = FALSE
  /\ everOver = FALSE
  /\ last = [op |-> "CreateBlockFileWithSize", arg |-> peer, ret |-> 0, err |-> "nil"]

\* a client calls bf.FreeBlock(block) for a block it holds and the process
\* ends in the call: the client's reference is gone with the process
CrashFreeBlock ==
  /\ bf.mapper
  /\ NoneLost
  /\ \E block \in allocated :
       LET s == FreeBlockStopped(blocks, Size(mf, size), bf.blocksize, block)
       IN  /\ s.err = "nil"
           /\ blocks' = s.blocks
           /\ allocated' = allocated \ {block}
           /\ leaked' = leaked \cup {block}
           /\ last' = [op |-> "FreeBlock", arg |-> block, ret |-> 0, err |-> "crash"]
  /\ bf' = [bf EXCEPT !.mapper = FALSE]
  /\ mf' = ClosedFile
  /\ everFreed' = TRUE
  /\ UNCHANGED <<size, freeOrder, freshAllocs, everOver, peer, off, closer, calls, out, bytes,
                 misfreed, procs>>

\* a client calls bf.AllocateBlock() and the process ends in the consume
\* path: no client has got the index
CrashAllocateBlock ==
  /\ bf.mapper
  /\ \E unlinked \in BOOLEAN :
       LET s == AllocateBlockStopped(blocks, Size(mf, size), bf.blocksize, unlinked)
       IN  /\ s.err = "nil"
           /\ unlinked => NoneLost
           /\ blocks' = s.blocks
           /\ leaked' = IF unlinked THEN leaked \cup {s.ret} ELSE leaked
           /\ freeOrder' = IF unlinked THEN Remove(freeOrder, s.ret) ELSE freeOrder
           /\ last' = [op |-> "AllocateBlock", arg |-> IF unlinked THEN 1 ELSE 0,
                       ret |-> s.ret, err |-> "crash"]
  /\ bf' = [bf EXCEPT !.mapper = FALSE]
  /\ mf' = ClosedFile
  /\ UNCHANGED <<size, allocated, freshAllocs, everFreed, everOver, peer, off, closer, calls,
                 out, bytes, misfreed, procs>>

NextCrash ==
  \/ DoAllocateBlock
  \/ DoFreeBlock
  \/ DoOpenBlockFile
  \/ CrashFreeBlock
  \/ CrashAllocateBlock

\* the calls of the clients of a file, some of them stopped half-way; the
\* clients go on calling
SpecCrash == InitSmall /\ [][NextCrash]_vars /\ WF_vars(NextCrash)

\* block i of file f is a header block with an empty list
EmptyHeader(f, i) == Validate(f[i]) = "nil" /\ f[i].free_head = 0

\* C23: when FreeBlock(i) takes the path that makes block i a new overflow
\* header and stops after block i has been initialised, before root.next is
\* set to i, block i is leaked: it is an initialised header that is neither
\* a free-list entry nor reachable as a header from block 0, no client
\* holds it, every other block and the size of the file keep their state,
\* and no later AllocateBlock returns it.
C23_CrashInFreeLeaks ==
  [][ /\ (last'.op = "FreeBlock" /\ last'.err = "crash") =>
           /\ EmptyHeader(blocks', last'.arg)
           /\ last'.arg \in leaked'
           /\ \A b \in BlockIdx \ {last'.arg} : blocks'[b] = blocks[b]
           /\ size' = size
      /\ \A i \in leaked' :
           /\ Listed(blocks', i) = 0
           /\ i \notin ChainSet(blocks')
           /\ i \notin allocated'
      /\ (last'.op = "AllocateBlock" /\ last'.err = "nil") => last'.ret \notin leaked
      /\ leaked \subseteq leaked'
    ]_vars

\* FreeBlock has stopped after it made the block a header in front of the
\* first overflow header block
C23_Witness ==
  /\ last.op = "FreeBlock"
  /\ last.err = "crash"
  /\ last.arg \in leaked
  /\ EmptyHeader(blocks, last.arg)
  /\ blocks[last.arg].next # 0
  /\ blocks[last.arg].next = blocks[0].next

\* an index is allocated twice: a client holds a block that is a free-list
\* entry or an overflow header block, so that the block is or will be
\* returned while it is held
DoubleAllocation ==
  \E i \in allocated : Listed(blocks, i) > 0 \/ i \in ChainSet(blocks)

\* AllocateBlock has stopped in the consume path
ConsumeCrashed == last.op = "AllocateBlock" /\ last.err = "crash"

NotHeld == {0} \cup {i \in BlockIdx : Listed(blocks, i) > 0} \cup ChainSet(blocks)

\* a client calls bf.FreeBlock(block) for a block it does not hold, once
\* per file: FreeBlock has no test of its argument
DoFreeNotHeld ==
  /\ bf.mapper
  /\ misfreed = {}
  /\ \E block \in NotHeld \ allocated :
       LET r == FreeBlock(blocks, Size(mf, size), bf.blocksize, block)
       IN  /\ blocks' = r.blocks
           /\ misfreed' = {block}
           /\ last' = [op |-> "FreeBlock", arg |-> block, ret |-> 0, err |-> r.err]
  /\ everFreed' = TRUE
  /\ UNCHANGED <<size, mf, bf, allocated, freeOrder, freshAllocs, everOver, peer>>
  /\ UNCHANGED <<off, closer, calls, out, bytes, leaked, procs>>

NextNotHeld ==
  \/ DoAllocateBlock
  \/ DoFreeBlock
  \/ DoFreeNotHeld

\* the calls of clients that also free blocks they do not hold
SpecNotHeld == InitSmall /\ [][NextNotHeld]_vars

\* C25: the free-list invariant holds after every operation, also after a
\* FreeBlock(i) whose argument is not allocated (i = 0, i listed as free, i
\* an overflow header block): the chain from block 0 is acyclic and ends at
\* next = 0, every listed entry is distinct, and AllocateBlock never returns
\* 0 or an index that is held.
C25_InvariantUnderAnyFree ==
  [][ /\ Acyclic(blocks')
      /\ \A i \in BlockIdx : Listed(blocks', i) <= 1
      /\ (last'.op = "AllocateBlock" /\ last'.err = "nil") =>
           (last'.ret # 0 /\ last'.ret \notin allocated)
    ]_vars

\* FreeBlock(0) has returned nil on a file whose root had room
C25_Witness ==
  /\ last.op = "FreeBlock"
  /\ last.arg = 0
  /\ misfreed = {0}
  /\ last.err = "nil"
  /\ Listed(blocks, 0) > 0

\* ---------------------------------------------------------------------
\* Allocate a run of blocks, then free them: the layout of the free list

\* the blocks 1 .. LayoutBlocks are allocated
LayoutBlocks == 10

\* capacity 0 and capacity 3
LayoutBlockSizes == {20, 32}

\* CreateBlockFileWithSize(filename, B) for a B of LayoutBlockSizes
InitLayout ==
  /\ peer \in LayoutBlockSizes
  /\ size = peer
  /\ blocks = CreateBlockFileInMapperWithSize([b \in 0 .. LayoutBlocks |-> ZeroBlock],
                                              peer, peer).blocks
  /\ mf = OpenedFile
  /\ bf = [mapper |-> TRUE, blocksize |-> peer]
  /\ off = 0
  /\ closer = TRUE
  /\ calls = NoCalls
  /\ out = NoOut
  /\ bytes = << >>
  /\ leaked = {}
  /\ misfreed = {}
  /\ procs = NoProcs
  /\ allocated = {}
  /\ freeOrder = << >>
  /\ freshAllocs = 0
  /\ everFreed = FALSE
  /\ everOver = FALSE
  /\ last = [op |-> "CreateBlockFileWithSize", arg |-> peer, ret |-> 0, err |-> "nil"]

\* bf.AllocateBlock() before the first FreeBlock
LayoutAllocateBlock ==
  /\ bf.mapper
  /\ ~everFreed
  /\ LET r == AllocateBlock(blocks, mf, size, bf.blocksize)
     IN  /\ r.size <= (LayoutBlocks + 1) * bf.blocksize
         /\ blocks' = IF r.err = "nil" THEN clientWrite(r.blocks, r.ret) ELSE r.blocks
         /\ size' = r.size
         /\ allocated' = IF r.err = "nil" THEN allocated \cup {r.ret} ELSE allocated
         /\ freshAllocs' = freshAllocs + 1
         /\ last' = [op |-> "AllocateBlock", arg |-> 0, ret |-> r.ret, err |-> r.err]
  /\ UNCHANGED <<mf, bf, freeOrder, everFreed, everOver, peer>>
  /\ UNCHANGED envVars

\* bf.FreeBlock(block) for the lowest or the highest block held
LayoutFreeBlock ==
  /\ bf.mapper
  /\ \E block \in allocated :
       /\ (\A x \in allocated : block <= x) \/ (\A x \in allocated : block >= x)
       /\ LET r == FreeBlock(blocks, Size(mf, size), bf.blocksize, block)
          IN  /\ blocks' = r.blocks
              /\ allocated' = IF r.err = "nil" THEN allocated \ {block} ELSE allocated
              /\ freeOrder' = IF r.err = "nil" THEN Append(freeOrder, block) ELSE freeOrder
              /\ everOver' = (everOver \/ Len(freeOrder') > RootCap)
              /\ last' = [op |-> "FreeBlock", arg |-> block, ret |-> 0, err |-> r.err]
  /\ everFreed' = TRUE
  /\ UNCHANGED <<size, mf, bf, freshAllocs, peer>>
  /\ UNCHANGED envVars

NextLayout ==
  \/ LayoutAllocateBlock
  \/ LayoutFreeBlock

\* a client allocates a run of blocks and frees them from either end
SpecLayout == InitLayout /\ [][NextLayout]_vars

\* the entries listed in header block n of file f, oldest first
Entries(f, n) == [k \in 1 .. f[n].free_head |-> f[n].entries[k - 1]]

\* C26: FreeBlock(i) with the root full (count = C, also C = 0 for B = 20):
\* if root.next = n # 0 and node n has room, i is pushed onto n and
\* root.next is unchanged; otherwise block i is initialised as a header with
\* count 0 and next = the root's previous next (possibly 0) and root.next
\* becomes i, so that i is the first overflow node and is not a free-list
\* entry.  With B = 32 (C = 3), allocate 1..10 then free 1..10 in order
\* leaves root = [1,2,3], root.next = 8, node 8 = [9,10] with next 4, node
\* 4 = [5,6,7] with next 0.
C26_FreeWithFullRoot ==
  [][ LET i == last'.arg
          n == blocks[0].next
      IN  /\ (/\ last'.op = "FreeBlock"
              /\ last'.err = "nil"
              /\ blocks[0].free_head = blocks[0].free_len) =>
                IF n # 0 /\ blocks[n].free_head < blocks[n].free_len
                THEN /\ Entries(blocks', n) = Append(Entries(blocks, n), i)
                     /\ blocks'[n].next = blocks[n].next
                     /\ blocks'[0] = blocks[0]
                     /\ \A b \in DOMAIN blocks \ {n} : blocks'[b] = blocks[b]
                ELSE /\ EmptyHeader(blocks', i)
                     /\ blocks'[i].next = n
                     /\ blocks'[0] = [blocks[0] EXCEPT !.next = i]
                     /\ \A b \in DOMAIN blocks \ {0, i} : blocks'[b] = blocks[b]
                     /\ Chain(blocks') = <<i>> \o Chain(blocks)
                     /\ Listed(blocks', i) = 0
          /\ (/\ bf.blocksize = 32
              /\ freeOrder' = <<1, 2, 3, 4, 5, 6, 7, 8, 9, 10>>) =>
                /\ Entries(blocks', 0) = <<1, 2, 3>>
                /\ blocks'[0].next = 8
                /\ Entries(blocks', 8) = <<9, 10>>
                /\ blocks'[8].next = 4
                /\ Entries(blocks', 4) = <<5, 6, 7>>
                /\ blocks'[4].next = 0
    ]_vars

\* with B = 32 the blocks 1 .. 10 were allocated and then freed in order
C26_Witness ==
  /\ bf.blocksize = 32
  /\ freeOrder = <<1, 2, 3, 4, 5, 6, 7, 8, 9, 10>>
  /\ last.op = "FreeBlock"
  /\ last.arg = 10
  /\ Chain(blocks) = <<8, 4>>

\* ---------------------------------------------------------------------
\* When the file grows, and what a call leaves alone

\* the free blocks of file f: the listed entries and the overflow header
\* blocks
FreeSet(f) ==
  LET ns == NodeSet(f)
  IN  (ns \ {0}) \cup UNION {{f[n].entries[k] : k \in 0 .. (f[n].free_head - 1)} : n \in ns}

\* C27: AllocateBlock extends the file only when the root has count = 0 and
\* root.next = 0, which in every reachable state means that no block is free
\* and no overflow header exists; whenever a free entry or an overflow
\* header exists, AllocateBlock returns one of them and leaves the size of
\* the file unchanged, so that after m frees the next m allocations do not
\* grow the file.
C27_ExtendsOnlyWhenNoneFree ==
  [][ LET before == FreeSet(blocks)
          after == FreeSet(blocks')
      IN  /\ (blocks'[0].free_head = 0 /\ blocks'[0].next = 0) <=> after = {}
          /\ after = Range(freeOrder')
          /\ (last'.op = "AllocateBlock" /\ last'.err = "nil") =>
               /\ size' # size => (blocks[0].free_head = 0 /\ blocks[0].next = 0)
               /\ before # {} =>
                    /\ last'.ret \in before
                    /\ size' = size
                    /\ Len(freeOrder') = Len(freeOrder) - 1
               /\ before = {} => size' = size + bf.blocksize
    ]_vars

\* more blocks than the root holds were freed and all of them were allocated
\* again: the file has not grown
C27_Witness ==
  /\ last.op = "AllocateBlock"
  /\ last.err = "nil"
  /\ everOver
  /\ freeOrder = << >>
  /\ Cardinality(allocated) >= 2
  /\ size = (Cardinality(allocated) + 1) * bf.blocksize

\* C28: when the root has room (count < C), FreeBlock(i) only writes
\* entries[count] = i and increments the root's count: root.next, every
\* overflow header, the contents of block i and the size of the file are
\* unchanged, so that the chain behind a root with room is kept; and when
\* the root has count > 0, AllocateBlock only decrements the root's count
\* (the block it returns is then the client's to write).
C28_RootOnly ==
  [][ LET head == blocks[0].free_head
      IN  /\ (last'.op = "FreeBlock" /\ bf.mapper /\ head < blocks[0].free_len) =>
                /\ last'.err = "nil"
                /\ blocks' = [blocks EXCEPT ![0].free_head = head + 1,
                                            ![0].entries[head] = last'.arg]
                /\ blocks'[0].next = blocks[0].next
                /\ blocks'[last'.arg] = blocks[last'.arg]
                /\ Chain(blocks') = Chain(blocks)
                /\ size' = size
          /\ (last'.op = "AllocateBlock" /\ bf.mapper /\ head > 0) =>
                /\ last'.err = "nil"
                /\ last'.ret = Top(blocks[0])
                /\ AllocateBlock(blocks, mf, size, bf.blocksize).blocks
                     = [blocks EXCEPT ![0].free_head = head - 1]
                /\ \A b \in DOMAIN blocks \ {last'.ret} :
                     blocks'[b] = [blocks EXCEPT ![0].free_head = head - 1][b]
                /\ size' = size
    ]_vars

\* FreeBlock has pushed its block onto a root that had room and has a chain
\* behind it
C28_Witness ==
  /\ last.op = "FreeBlock"
  /\ last.err = "nil"
  /\ blocks[0].next # 0
  /\ blocks[0].free_head >= 1
  /\ Top(blocks[0]) = last.arg
  /\ blocks[blocks[0].next].free_head >= 1

\* the blocks in which files f and g differ
Written(f, g) == {b \in DOMAIN f : g[b] # f[b]}

\* C29: a single AllocateBlock or FreeBlock reads and writes at most the
\* root, the first overflow header (root.next) and, for FreeBlock, the freed
\* block itself: the header and the entries of every overflow header behind
\* the first one in the chain are unchanged by the call.
C29_TouchesFirstNodeOnly ==
  [][ LET c == Chain(blocks)
      IN  /\ (last'.op = "AllocateBlock" /\ bf.mapper) =>
                /\ Written(blocks, AllocateBlock(blocks, mf, size, bf.blocksize).blocks)
                     \subseteq {0, blocks[0].next}
                /\ \A k \in 2 .. Len(c) : blocks'[c[k]] = blocks[c[k]]
          /\ (last'.op = "FreeBlock" /\ bf.mapper) =>
                /\ Written(blocks, blocks') \subseteq {0, blocks[0].next, last'.arg}
                /\ \A k \in 2 .. Len(c) : blocks'[c[k]] = blocks[c[k]]
    ]_vars

\* FreeBlock has put a new header block in front of a chain of two
C29_Witness ==
  /\ last.op = "FreeBlock"
  /\ last.err = "nil"
  /\ Len(Chain(blocks)) >= 3
  /\ Chain(blocks)[1] = last.arg

\* C30: in every state reached by AllocateBlock and FreeBlock from a new
\* file, with clients that free only blocks they hold, every overflow
\* header block other than the first one of the chain (root.next) is full
\* (count = capacity); only the root and the first overflow header can be
\* partly filled or empty.
C30_LaterNodesFull ==
  LET c == Chain(blocks)
  IN  \A k \in 2 .. Len(c) : blocks[c[k]].free_head = blocks[c[k]].free_len

\* a chain of two header blocks of capacity 1 or more: the first one has
\* room, the second one is full
C30_Witness ==
  LET c == Chain(blocks)
  IN  /\ Len(c) >= 2
      /\ blocks[c[1]].free_head < blocks[c[1]].free_len
      /\ blocks[c[2]].free_len >= 1
      /\ blocks[c[2]].free_head = blocks[c[2]].free_len

\* ------------------------------------------------------------------ file size

\* C31: for a file created with CreateBlockFileWithSize(path, B), after every
\* AllocateBlock and FreeBlock the size of the mapper is a multiple of B, is
\* at least B and not less than before, and the whole block of every index
\* that is allocated, listed as free or serves as a header node lies inside
\* the file: (i+1)*B <= size.  The calls are those of an open BlockFile
\* whose clients have freed only blocks they held.
C31_WholeBlocksInside ==
  [][ (/\ bf.mapper
       /\ last'.op \in {"AllocateBlock", "FreeBlock"}
       /\ BeyondFile \notin Range(freeOrder') \cup allocated')
      => LET msize == Size(mf', size')
         IN  /\ msize % peer = 0
             /\ msize >= peer
             /\ msize >= Size(mf, size)
             /\ \A i \in allocated' \cup FreeSet(blocks') \cup NodeSet(blocks') :
                  (i + 1) * peer <= msize
    ]_vars

\* ---------------------------------------------------------------------
\* The cursor of the region

\* C32: on an open MappedFile, after any sequence of Seek, Read, ReadByte,
\* Write, WriteByte, Next and Truncate (growing or shrinking) the cursor
\* satisfies 0 <= Offset() <= Size(), so Len() = Size() - Offset() is never
\* negative, and Next(n) with n >= 0 returns exactly min(n, Len()) bytes and
\* advances the cursor by that amount.
C32_CursorInsideRegion ==
  [][ /\ mf'.data =>
           /\ 0 <= Offset(mf', off')
           /\ Offset(mf', off') <= Size(mf', size')
           /\ LenUnread(mf', size', off') = Size(mf', size') - Offset(mf', off')
           /\ LenUnread(mf', size', off') >= 0
      /\ (last'.op = "Next" /\ mf.data) =>
           /\ last'.err = "nil"
           /\ last'.ret = Min(last'.arg, LenUnread(mf, size, off))
           /\ off' = off + last'.ret
    ]_vars

\* ---------------------------------------------------------------------
\* A Truncate that fails behind its unmap step

\* the methods C33 names
UnmappedOps == {"Sync", "Truncate", "Read", "Write", "Seek", "ReadAt", "WriteAt"}

\* C33: if MappedFile.Truncate fails after the unmap step (os.File.Truncate
\* or the remap fails), the region is left without a mapping: Size() returns
\* 0 and every later Sync, Truncate, Read, Write, Seek, ReadAt and WriteAt
\* returns the "MappedFile: closed" error, while the file handle stays open
\* until Close; the previous size and mapping are not restored.
C33_FailedTruncateUnmaps ==
  [][ /\ (last'.op = "Truncate" /\ last'.err \in {"os", "mmap"}) =>
           /\ ~mf'.data
           /\ mf'.file
           /\ Size(mf', size') = 0
      /\ (calls.mapperClose = 0 /\ ~mf.data) =>
           /\ mf.file
           /\ last'.op \in UnmappedOps => last'.err = "closed"
           /\ last'.op = "Size" => last'.ret = 0
           /\ last'.op # "Close" => mf' = mf
           /\ last'.op = "Close" =>
                (~mf'.file /\ calls'.fileClose = 1 /\ calls'.munmap = 0)
    ]_vars

\* a region of 2 bytes lost its mapping in a Truncate that Mmap refused, and
\* a later WriteAt inside the old size has returned the closed error
C33_Witness ==
  /\ calls.mapperClose = 0
  /\ ~mf.data
  /\ mf.file
  /\ size = 0
  /\ last.op = "WriteAt"
  /\ last.arg = 1
  /\ last.err = "closed"

\* ---------------------------------------------------------------------
\* AllocateBlock calls that are not serialised: two callers execute
\* AllocateBlock step by step, a step being one access of the mapper (the
\* read of a header in mapHeaderBlock, the store into a header, Size,
\* Truncate), and the steps of the two calls are taken in any order.
\* FreeBlock runs as a whole, between the calls, as long as no calls have
\* overlapped.  A Truncate of one call replaces the mapping while the
\* handler of the other call holds a header of the old mapping: the store
\* through that header goes to the new mapping at the same address, or the
\* process ends with a fault.

\* the calls after a step of caller p that leaves its call as c; the calls
\* were interleaved when the other caller is inside a call
Stepped(p, c) ==
  [procs EXCEPT !.call[p] = c,
                !.mixed = @ \/ (\E q \in Callers \ {p} : procs.call[q].pc # "idle")]

\* the call of caller p goes on with the locals c, the file being f
GoesOn(p, f, c) ==
  /\ blocks' = f
  /\ procs' = Stepped(p, c)
  /\ UNCHANGED <<size, allocated, freeOrder, last, mf, bf>>

\* the calls after the mapping was replaced: the headers that handlers hold
\* for a store are headers of the old mapping
Remapped(ps) ==
  [ps EXCEPT !.call = [q \in Callers |->
                         IF ps.call[q].pc \in {"writeRoot", "writeNext"}
                         THEN [ps.call[q] EXCEPT !.stale = TRUE]
                         ELSE ps.call[q]]]

\* the call of caller p returns (ret, err), the file being f of sz bytes and
\* mapped again or not; the client stores its data in the block it was given
ReturnsBlock(p, f, sz, ret, err, remapped) ==
  /\ blocks' = IF err = "nil" THEN clientWrite(f, ret) ELSE f
  /\ size' = sz
  /\ allocated' = IF err = "nil" THEN allocated \cup {ret} ELSE allocated
  /\ freeOrder' = IF err = "nil" THEN Remove(freeOrder, ret) ELSE freeOrder
  /\ last' = [op |-> "AllocateBlock", arg |-> 0, ret |-> ret, err |-> err]
  /\ procs' = LET ps == [Stepped(p, IdleCall) EXCEPT
                           !.dup = IF err = "nil" /\ ret \in allocated THEN @ \cup {ret} ELSE @]
               IN  IF remapped THEN Remapped(ps) ELSE ps
  /\ UNCHANGED <<mf, bf>>

\* the store of caller p through a header of a mapping that is gone ends
\* the process: no call returns
Faults(p) ==
  /\ procs.call[p].stale
  /\ bf' = [bf EXCEPT !.mapper = FALSE]
  /\ mf' = ClosedFile
  /\ procs' = [Stepped(p, IdleCall) EXCEPT !.call = [q \in Callers |-> IdleCall]]
  /\ last' = [op |-> "AllocateBlock", arg |-> 0, ret |-> 0, err |-> "fault"]
  /\ UNCHANGED <<blocks, size, allocated, freeOrder>>

\* what no step of AllocateBlock changes
RaceFrame == UNCHANGED <<freshAllocs, everFreed, everOver, peer, off, closer, calls, out,
                         bytes, leaked, misfreed>>

\* AllocateBlock, mapHeaderBlock(0, ...): the header of block 0 is validated
\* and freeListPop reads free_head and the entry below it
RaceReadRoot(p) ==
  /\ bf.mapper
  /\ procs.call[p].pc = "idle"
  /\ LET e == mapHeaderBlock(blocks, Size(mf, size), bf.blocksize, 0)
         q == freeListPop(blocks[0])
     IN  IF e # "nil" THEN ReturnsBlock(p, blocks, size, 0, e, FALSE)
         ELSE IF q.err = "nil"
              THEN GoesOn(p, blocks, [IdleCall EXCEPT !.pc = "writeRoot",
                                                      !.cur = q.hdr.free_head,
                                                      !.block = q.entry])
              ELSE IF blocks[0].next # 0
                   THEN GoesOn(p, blocks, [IdleCall EXCEPT !.pc = "readNext",
                                                           !.hdrIdx = blocks[0].next])
                   ELSE GoesOn(p, blocks, [IdleCall EXCEPT !.pc = "size"])
  /\ RaceFrame

\* freeListPop, hdr.free_head = cur, on block 0: the call returns the entry
RaceWriteRoot(p) ==
  /\ procs.call[p].pc = "writeRoot"
  /\ \/ ReturnsBlock(p, [blocks EXCEPT ![0].free_head = procs.call[p].cur], size,
                     procs.call[p].block, "nil", FALSE)
     \/ Faults(p)
  /\ RaceFrame

\* AllocateBlock, mapHeaderBlock(hdrIdx, ...): the first overflow header is
\* validated and freeListPop reads free_head and the entry below it
RaceReadNext(p) ==
  /\ procs.call[p].pc = "readNext"
  /\ LET c == procs.call[p]
         e == mapHeaderBlock(blocks, Size(mf, size), bf.blocksize, c.hdrIdx)
         q == freeListPop(blocks[c.hdrIdx])
     IN  IF e # "nil" THEN ReturnsBlock(p, blocks, size, 0, e, FALSE)
         ELSE IF q.err = "nil"
              THEN GoesOn(p, blocks, [c EXCEPT !.pc = "writeNext",
                                               !.cur = q.hdr.free_head,
                                               !.block = q.entry])
              ELSE GoesOn(p, blocks, [c EXCEPT !.pc = "consume",
                                               !.nextHdrIdx = blocks[c.hdrIdx].next])
  /\ RaceFrame

\* freeListPop, hdr.free_head = cur, on the overflow header
RaceWriteNext(p) ==
  /\ procs.call[p].pc = "writeNext"
  /\ \/ ReturnsBlock(p, [blocks EXCEPT ![procs.call[p].hdrIdx].free_head = procs.call[p].cur],
                     size, procs.call[p].block, "nil", FALSE)
     \/ Faults(p)
  /\ RaceFrame

\* AllocateBlock, "change next of page 0": the call returns hdrIdx
RaceConsume(p) ==
  /\ procs.call[p].pc = "consume"
  /\ LET c == procs.call[p]
         e == mapHeaderBlock(blocks, Size(mf, size), bf.blocksize, 0)
     IN  IF e # "nil" THEN ReturnsBlock(p, blocks, size, 0, e, FALSE)
         ELSE ReturnsBlock(p, [blocks EXCEPT ![0].next = c.nextHdrIdx], size, c.hdrIdx, "nil",
                           FALSE)
  /\ RaceFrame

\* AllocateBlock, "allocate new block": newBlockIndex from bf.mapper.Size()
RaceSize(p) ==
  /\ procs.call[p].pc = "size"
  /\ GoesOn(p, blocks, [procs.call[p] EXCEPT
                          !.pc = "truncate",
                          !.newBlockIndex = newBlockIndex(Size(mf, size), bf.blocksize)])
  /\ RaceFrame

\* the file after os.File.Truncate to sz bytes: the blocks behind the end are
\* gone, and zero when the file grows again
cutBlocks(f, sz, bs) == [i \in DOMAIN f |-> IF (i + 1) * bs > sz THEN ZeroBlock ELSE f[i]]

\* AllocateBlock, bf.mapper.Truncate((newBlockIndex + 1) * blocksize): the
\* call returns newBlockIndex
RaceTruncate(p) ==
  /\ procs.call[p].pc = "truncate"
  /\ LET c == procs.call[p]
         t == Truncate(mf, size, newSize(c.newBlockIndex, bf.blocksize))
     IN  /\ t.size <= MaxBlocks * bf.blocksize
         /\ IF t.err # "nil" THEN ReturnsBlock(p, blocks, size, 0, t.err, FALSE)
            ELSE ReturnsBlock(p, cutBlocks(blocks, t.size, bf.blocksize), t.size,
                              c.newBlockIndex, "nil", TRUE)
  /\ RaceFrame

\* FreeBlock of a block a client holds, while no AllocateBlock is under way
\* and none has overlapped another
RaceFreeBlock ==
  /\ \A p \in Callers : procs.call[p].pc = "idle"
  /\ ~procs.mixed
  /\ DoFreeBlock

NextRace ==
  \/ \E p \in Callers :
       \/ RaceReadRoot(p)
       \/ RaceWriteRoot(p)
       \/ RaceReadNext(p)
       \/ RaceWriteNext(p)
       \/ RaceConsume(p)
       \/ RaceSize(p)
       \/ RaceTruncate(p)
  \/ RaceFreeBlock

\* two callers of AllocateBlock on one BlockFile, their calls serialised or not
SpecRace == InitSmall /\ [][NextRace]_vars

\* C34: the allocator does no synchronisation.  When two AllocateBlock calls
\* on the same file are not serialised by the caller and their mapper steps
\* (header read, header write, Size, Truncate) interleave, a state is
\* reachable in which both calls return the same block index; when every
\* AllocateBlock and FreeBlock runs atomically this state is unreachable: an
\* AllocateBlock returns an index that a client holds only after steps of
\* two calls were interleaved.
C34_SameIndexOnlyWhenInterleaved ==
  [][ /\ (\E p \in Callers : procs.call[p].pc # "idle" /\ procs'.call[p].pc = "idle"
                              /\ last'.err = "nil" /\ last'.ret \in allocated)
           => procs'.mixed
      /\ procs'.dup # {} => procs'.mixed
    ]_vars

\* two calls whose steps were interleaved have returned the same index: the
\* second of them has just returned an index that the first one's client holds
C34_Witness ==
  /\ procs.mixed
  /\ \A p \in Callers : procs.call[p].pc = "idle"
  /\ last.op = "AllocateBlock"
  /\ last.err = "nil"
  /\ procs.dup = {last.ret}
  /\ last.ret \in allocated

====
